---- MODULE Spec2Model ----
(***************************************************************************)
(* hexempire: the turn/phase state machine of GameController, the dice     *)
(* combat of CombatSystem and the territory assignment of                  *)
(* TerritoryGenerator, as a state machine over the GameState aggregate.    *)
(*                                                                         *)
(* Time is counted in ticks of a quarter second, so that the two timers of *)
(* the controller (AI_THINK_DELAY = 0.5 s, combat display = 1.5 s) are     *)
(* integers.  Float scores of the AI are not computed: which candidate the *)
(* AI picks, and whether its best candidate passes the thresholds, is a    *)
(* nondeterministic choice over the candidates EvaluateAttacks produces.   *)
(* A combat result carries its ids, players and outcome; of the result     *)
(* cached in lastCombat for display the model keeps the outcome flag.      *)
(***************************************************************************)
EXTENDS Integers, Sequences, FiniteSets, TLC

VARIABLES gc, combat

vars == <<gc, combat>>

(***************************************************************************)
(* Bounds of the model.                                                    *)
(***************************************************************************)
\* EndTurn is explored while turnNumber stays within this bound
MaxTurn == 2
\* longest roll vector drawn for ResolveCombat in SpecCombat
MaxRollDice == 2

(***************************************************************************)
(* Program constants.                                                      *)
(***************************************************************************)
PLAYER_NONE == 255
TERRITORY_NONE == 65535
MAX_DICE_PER_TERRITORY == 8
\* 0.5 s, in quarter-second ticks
AI_THINK_DELAY == 2
\* 1.5 s, in quarter-second ticks
COMBAT_ANIM_TIME == 6
DIE_SIDES == 6

\* frame times passed to Update, in ticks
DeltaTimes == {1}

\* ids a caller may pass in state s: the territories, one id past the end,
\* and none
CallerIds(s) ==
    DOMAIN s.territories \cup {Cardinality(DOMAIN s.territories), TERRITORY_NONE}

(***************************************************************************)
(* Helpers on sequences and sets.                                          *)
(***************************************************************************)
RECURSIVE SetToSeq(_)
SetToSeq(S) ==
    IF S = {} THEN << >>
    ELSE LET m == CHOOSE x \in S : \A y \in S : x <= y
         IN  <<m>> \o SetToSeq(S \ {m})

SeqRange(q) == {q[i] : i \in 1 .. Len(q)}

RemoveAt(q, idx) == [i \in 1 .. (Len(q) - 1) |-> IF i < idx THEN q[i] ELSE q[i + 1]]

RECURSIVE Sum(_)
Sum(q) == IF q = << >> THEN 0 ELSE Head(q) + Sum(Tail(q))

Orderings(S) ==
    {q \in [1 .. Cardinality(S) -> S] : \A i, j \in DOMAIN q : i # j => q[i] # q[j]}

(***************************************************************************)
(* GameData.h                                                              *)
(***************************************************************************)
TerritoryCanAttack(t) == t.diceCount >= 2

ValidTerritory(s, id) == id \in DOMAIN s.territories

IsGameOver(s) == s.winner # PLAYER_NONE

CountTerritoriesOwned(s, player) ==
    Cardinality({t \in DOMAIN s.territories : s.territories[t].owner = player})

NoCombat ==
    [attackerId |-> TERRITORY_NONE, defenderId |-> TERRITORY_NONE,
     attackerPlayer |-> PLAYER_NONE, defenderPlayer |-> PLAYER_NONE,
     attackerWins |-> FALSE]

\* what GameState.lastCombat keeps of a result: the outcome flag
CachedCombat(result) == [attackerWins |-> result.attackerWins]

(***************************************************************************)
(* TerritoryGenerator                                                      *)
(***************************************************************************)
\* The map Generate leaves behind for `count` seeds: territories in a row,
\* each of one hex <<t, 0>> and bordering the next (ids dense, neighbor lists
\* symmetric, no self loops), unowned and with one die
\* (FloodFillTerritories), and the reverse index of their hexes.
MapNeighbors(t, count) ==
    SetToSeq({n \in 0 .. (count - 1) : n = t - 1 \/ n = t + 1})

GeneratedTerritories(count) ==
    [t \in 0 .. (count - 1) |->
        [id |-> t, owner |-> PLAYER_NONE, diceCount |-> 1,
         hexes |-> << <<t, 0>> >>,
         neighbors |-> MapNeighbors(t, count)]]

GeneratedHexToTerritory(count) ==
    [h \in {<<t, 0>> : t \in 0 .. (count - 1)} |-> h[1]]

\* territories of `player`, in id order (the scan of state.territories)
PlayerTerritories(terr, player) ==
    SetToSeq({t \in DOMAIN terr : terr[t].owner = player})

\* round-robin assignment along one shuffled order of the ids
AssignOwners(terr, order, playerCount) ==
    [t \in DOMAIN terr |->
        LET i == CHOOSE k \in DOMAIN order : order[k] = t
        IN  [terr[t] EXCEPT !.owner = (i - 1) % playerCount]]

\* AssignDiceStep without the cap
AssignDiceStepNoCap(x, idx) ==
    [x EXCEPT !.terr[x.cand[idx]].diceCount = @ + 1, !.left = @ - 1]

\* one iteration of the starting-dice loop, the random index being idx
AssignDiceStep(x, idx) ==
    LET tid == x.cand[idx]
    IN  IF x.terr[tid].diceCount < MAX_DICE_PER_TERRITORY
        THEN [x EXCEPT !.terr[tid].diceCount = @ + 1, !.left = @ - 1]
        ELSE LET rest == RemoveAt(x.cand, idx)
             IN  IF rest = << >>
                 THEN [x EXCEPT !.cand = rest, !.left = 0]
                 ELSE [x EXCEPT !.cand = rest]

AssignDiceDone(x) == x.left <= 0

\* every way the loop can run to its end from the loop states X
RECURSIVE AssignDiceRun(_)
AssignDiceRun(X) ==
    IF \A x \in X : AssignDiceDone(x) THEN X
    ELSE AssignDiceRun(UNION {IF AssignDiceDone(x) THEN {x}
                              ELSE {AssignDiceStep(x, idx) : idx \in 1 .. Len(x.cand)}
                              : x \in X})

\* starting dice of player p, from each territory table of T
AssignPlayerDice(T, p, startingDice) ==
    UNION {LET mine == PlayerTerritories(terr, p)
           IN  IF mine = << >> THEN {terr}
               ELSE {x.terr : x \in AssignDiceRun({[terr |-> terr, cand |-> mine,
                                                    left |-> startingDice - Len(mine)]})}
           : terr \in T}

RECURSIVE AssignAllDice(_, _, _, _)
AssignAllDice(T, p, playerCount, startingDice) ==
    IF p >= playerCount THEN T
    ELSE AssignAllDice(AssignPlayerDice(T, p, startingDice), p + 1, playerCount, startingDice)

\* the territory tables AssignToPlayers can produce
AssignToPlayers(terr, playerCount, startingDice) ==
    IF DOMAIN terr = {} \/ playerCount <= 0 THEN {terr}
    ELSE AssignAllDice({AssignOwners(terr, order, playerCount)
                            : order \in Orderings(DOMAIN terr)},
                       0, playerCount, startingDice)

(***************************************************************************)
(* CombatSystem                                                            *)
(***************************************************************************)
\* roll vectors RollDice(count) can return
RollDice(count) == [1 .. count -> 1 .. DIE_SIDES]

\* totals of `count` dice
RECURSIVE DiceTotals(_)
DiceTotals(count) ==
    IF count <= 0 THEN {0}
    ELSE {t + r : t \in DiceTotals(count - 1), r \in 1 .. DIE_SIDES}

\* the winner flag ResolveCombat computes from the two totals
AttackerWins(attackerTotal, defenderTotal) == attackerTotal > defenderTotal

\* ResolveCombat on given rolls
ResolveCombat(attacker, defender, attackerRolls, defenderRolls) ==
    [attackerId |-> attacker.id, defenderId |-> defender.id,
     attackerPlayer |-> attacker.owner, defenderPlayer |-> defender.owner,
     attackerRolls |-> attackerRolls, defenderRolls |-> defenderRolls,
     attackerTotal |-> Sum(attackerRolls), defenderTotal |-> Sum(defenderRolls),
     attackerWins |-> AttackerWins(Sum(attackerRolls), Sum(defenderRolls))]

\* the combat results ResolveCombat can return for two territories, the rolls
\* reduced to their count
CombatResults(attacker, defender) ==
    {[attackerId |-> attacker.id, defenderId |-> defender.id,
      attackerPlayer |-> attacker.owner, defenderPlayer |-> defender.owner,
      attackerWins |-> w]
        : w \in {AttackerWins(a, d) : a \in DiceTotals(attacker.diceCount),
                                      d \in DiceTotals(defender.diceCount)}}

\* ApplyCombatResult moving every die of the attacker, none left behind counted
ApplyCombatResultMovesAll(s, result) ==
    IF result.attackerWins
    THEN [s EXCEPT !.territories[result.defenderId].owner = result.attackerPlayer,
                   !.territories[result.defenderId].diceCount =
                        s.territories[result.attackerId].diceCount,
                   !.territories[result.attackerId].diceCount = 1,
                   !.mapNeedsRefresh = TRUE]
    ELSE [s EXCEPT !.territories[result.attackerId].diceCount = 1]

\* ApplyCombatResult where a lost attack also costs the defender a die
ApplyCombatResultDefenderPays(s, result) ==
    IF result.attackerWins
    THEN [s EXCEPT !.territories[result.defenderId].owner = result.attackerPlayer,
                   !.territories[result.defenderId].diceCount =
                        s.territories[result.attackerId].diceCount - 1,
                   !.territories[result.attackerId].diceCount = 1,
                   !.mapNeedsRefresh = TRUE]
    ELSE [s EXCEPT !.territories[result.attackerId].diceCount = 1,
                   !.territories[result.defenderId].diceCount =
                        IF @ > 1 THEN @ - 1 ELSE @]

\* ApplyCombatResult where a lost attack costs the attacker nothing
ApplyCombatResultNoLoss(s, result) ==
    IF result.attackerWins
    THEN [s EXCEPT !.territories[result.defenderId].owner = result.attackerPlayer,
                   !.territories[result.defenderId].diceCount =
                        s.territories[result.attackerId].diceCount - 1,
                   !.territories[result.attackerId].diceCount = 1,
                   !.mapNeedsRefresh = TRUE]
    ELSE s

ApplyCombatResult(s, result) ==
    IF ~ValidTerritory(s, result.attackerId) \/ ~ValidTerritory(s, result.defenderId)
    THEN s
    ELSE IF result.attackerWins
         THEN LET movingDice == s.territories[result.attackerId].diceCount - 1
              IN  [s EXCEPT !.territories[result.defenderId].owner = result.attackerPlayer,
                            !.territories[result.defenderId].diceCount = movingDice % 256,
                            !.territories[result.attackerId].diceCount = 1,
                            !.mapNeedsRefresh = TRUE]
         ELSE [s EXCEPT !.territories[result.attackerId].diceCount = 1]

(***************************************************************************)
(* GameController: a controller object g has the fields state (GameState), *)
(* aiThinkTimer and aiController (whether an AIController is attached).    *)
(***************************************************************************)
StartTurn(g, player) ==
    LET human == g.state.players[player].isHuman
    IN  [g EXCEPT !.state.currentPlayer = player,
                  !.state.selectedTerritory = TERRITORY_NONE,
                  !.state.validTargets = << >>,
                  !.state.phase = IF human THEN "SelectAttacker" ELSE "AITurn",
                  !.aiThinkTimer = IF human THEN @ ELSE AI_THINK_DELAY]

\* the search of AdvanceToNextPlayer stopping at the next index, eliminated or not
FindNextPlayerNoSkip(s, from) ==
    LET next == (from + 1) % s.config.playerCount
    IN  IF next = s.currentPlayer THEN PLAYER_NONE ELSE next

\* the do-while of AdvanceToNextPlayer: the player it stops at, or PLAYER_NONE
\* when it comes back to the current player
RECURSIVE FindNextPlayer(_, _)
FindNextPlayer(s, from) ==
    LET next == (from + 1) % s.config.playerCount
    IN  IF next = s.currentPlayer THEN PLAYER_NONE
        ELSE IF s.players[next].isEliminated THEN FindNextPlayer(s, next)
        ELSE next

\* AdvanceToNextPlayer counting a turn on every advance
AdvanceToNextPlayerCountsAll(g) ==
    LET s == g.state
        next == FindNextPlayer(s, s.currentPlayer)
    IN  IF next = PLAYER_NONE
        THEN [g EXCEPT !.state.phase = "GameOver", !.state.winner = s.currentPlayer]
        ELSE StartTurn([g EXCEPT !.state.turnNumber = @ + 1], next)

AdvanceToNextPlayer(g) ==
    LET s == g.state
        next == FindNextPlayer(s, s.currentPlayer)
    IN  IF next = PLAYER_NONE
        THEN [g EXCEPT !.state.phase = "GameOver", !.state.winner = s.currentPlayer]
        ELSE StartTurn([g EXCEPT !.state.turnNumber =
                                    IF next <= s.currentPlayer THEN @ + 1 ELSE @],
                       next)

\* CanAttack without the adjacency test
CanAttackAnywhere(s, from, to) ==
    /\ ValidTerritory(s, from)
    /\ ValidTerritory(s, to)
    /\ s.territories[from].owner = s.currentPlayer
    /\ TerritoryCanAttack(s.territories[from])
    /\ s.territories[to].owner # s.currentPlayer

CanAttack(s, from, to) ==
    /\ ValidTerritory(s, from)
    /\ ValidTerritory(s, to)
    /\ s.territories[from].owner = s.currentPlayer
    /\ TerritoryCanAttack(s.territories[from])
    /\ s.territories[to].owner # s.currentPlayer
    /\ to \in SeqRange(s.territories[from].neighbors)

\* GetValidTargets listing every neighbor
GetValidTargetsAllNeighbors(s, from) ==
    IF ~ValidTerritory(s, from) THEN << >> ELSE s.territories[from].neighbors

GetValidTargets(s, from) ==
    IF ~ValidTerritory(s, from) THEN << >>
    ELSE IF ~TerritoryCanAttack(s.territories[from]) THEN << >>
    ELSE SelectSeq(s.territories[from].neighbors, LAMBDA n : CanAttack(s, from, n))

UpdateValidTargets(g) ==
    [g EXCEPT !.state.validTargets = GetValidTargets(g.state, g.state.selectedTerritory)]

\* CancelSelection leaving the phase as it is
CancelSelectionKeepsPhase(g) ==
    [g EXCEPT !.state.selectedTerritory = TERRITORY_NONE, !.state.validTargets = << >>]

CancelSelection(g) ==
    [g EXCEPT !.state.selectedTerritory = TERRITORY_NONE,
              !.state.validTargets = << >>,
              !.state.phase = "SelectAttacker"]

\* SelectTerritory that drops the selection whenever it refuses a territory
SelectTerritoryDropsSelection(g, territory) ==
    LET s == g.state
    IN  IF s.phase # "SelectAttacker" /\ s.phase # "SelectTarget"
        THEN [gc |-> g, ret |-> FALSE]
        ELSE IF /\ territory # s.selectedTerritory
                /\ ValidTerritory(s, territory)
                /\ s.territories[territory].owner = s.currentPlayer
                /\ TerritoryCanAttack(s.territories[territory])
        THEN [gc |-> UpdateValidTargets([g EXCEPT !.state.selectedTerritory = territory,
                                                  !.state.phase = "SelectTarget"]),
              ret |-> TRUE]
        ELSE [gc |-> CancelSelection(g), ret |-> FALSE]

\* the controller after the call and the value returned
SelectTerritory(g, territory) ==
    LET s == g.state
    IN  IF s.phase # "SelectAttacker" /\ s.phase # "SelectTarget"
        THEN [gc |-> g, ret |-> FALSE]
        ELSE IF territory = s.selectedTerritory
        THEN [gc |-> CancelSelection(g), ret |-> FALSE]
        ELSE IF ~ValidTerritory(s, territory)
        THEN [gc |-> g, ret |-> FALSE]
        ELSE IF s.territories[territory].owner # s.currentPlayer
        THEN [gc |-> g, ret |-> FALSE]
        ELSE IF ~TerritoryCanAttack(s.territories[territory])
        THEN [gc |-> g, ret |-> FALSE]
        ELSE [gc |-> UpdateValidTargets([g EXCEPT !.state.selectedTerritory = territory,
                                                  !.state.phase = "SelectTarget"]),
              ret |-> TRUE]

\* the scan of CheckVictory from territory i on: the single owner found, or
\* PLAYER_NONE (no victory) as soon as two owners differ
RECURSIVE VictoryScan(_, _, _)
VictoryScan(s, i, firstOwner) ==
    IF i >= Cardinality(DOMAIN s.territories) THEN firstOwner
    ELSE IF firstOwner = PLAYER_NONE THEN VictoryScan(s, i + 1, s.territories[i].owner)
    ELSE IF s.territories[i].owner # firstOwner THEN PLAYER_NONE
    ELSE VictoryScan(s, i + 1, firstOwner)

CheckVictory(g) ==
    LET firstOwner == VictoryScan(g.state, 0, PLAYER_NONE)
    IN  IF firstOwner = PLAYER_NONE THEN g
        ELSE [g EXCEPT !.state.winner = firstOwner, !.state.phase = "GameOver"]

\* CheckElimination that marks nobody
CheckEliminationSkipped(g) == g

\* CheckElimination marking a player down to the last territory
CheckEliminationEarly(g) ==
    LET s == g.state
        gone == {p \in 0 .. (s.config.playerCount - 1) :
                    ~s.players[p].isEliminated /\ CountTerritoriesOwned(s, p) <= 1
                    /\ p # s.currentPlayer}
    IN  [g EXCEPT !.state.players =
            [p \in DOMAIN s.players |->
                IF p \in gone THEN [s.players[p] EXCEPT !.isEliminated = TRUE]
                ELSE s.players[p]]]

CheckElimination(g) ==
    LET s == g.state
        out == {p \in DOMAIN s.players :
                    ~s.players[p].isEliminated /\ CountTerritoriesOwned(s, p) = 0}
    IN  [g EXCEPT !.state.players = [p \in DOMAIN s.players |->
                                        IF p \in out
                                        THEN [s.players[p] EXCEPT !.isEliminated = TRUE]
                                        ELSE s.players[p]],
                  !.state.activePlayerCount = @ - Cardinality(out)]

\* FinishAttack passing the turn on after the attack
FinishAttackPassesTurn(g, result) ==
    LET g1 == [g EXCEPT !.state = ApplyCombatResult(g.state, result)]
        g2 == [g1 EXCEPT !.state.lastCombat = CachedCombat(result),
                         !.state.combatPending = TRUE,
                         !.state.combatAnimTimer = COMBAT_ANIM_TIME]
        g3 == CheckVictory(CheckElimination(g2))
        g4 == [g3 EXCEPT !.state.selectedTerritory = TERRITORY_NONE,
                         !.state.validTargets = << >>]
    IN  IF ~IsGameOver(g4.state) THEN AdvanceToNextPlayer(g4) ELSE g4

\* Attack from the combat result on: apply, cache, check, reset the selection
FinishAttack(g, result) ==
    LET g1 == [g EXCEPT !.state = ApplyCombatResult(g.state, result)]
        g2 == [g1 EXCEPT !.state.lastCombat = CachedCombat(result),
                         !.state.combatPending = TRUE,
                         !.state.combatAnimTimer = COMBAT_ANIM_TIME]
        g3 == CheckVictory(CheckElimination(g2))
        g4 == [g3 EXCEPT !.state.selectedTerritory = TERRITORY_NONE,
                         !.state.validTargets = << >>]
    IN  IF ~IsGameOver(g4.state) /\ g4.state.players[g4.state.currentPlayer].isHuman
        THEN [g4 EXCEPT !.state.phase = "SelectAttacker"]
        ELSE g4

\* the outcomes of Attack(target): the controller after the call and the
\* value returned, one outcome per result the dice can give
Attack(g, target) ==
    LET s == g.state
        from == s.selectedTerritory
    IN  IF s.phase # "SelectTarget" /\ s.phase # "AITurn"
        THEN {[gc |-> g, ret |-> FALSE]}
        ELSE IF from = TERRITORY_NONE
        THEN {[gc |-> g, ret |-> FALSE]}
        ELSE IF ~CanAttack(s, from, target)
        THEN {[gc |-> g, ret |-> FALSE]}
        ELSE {[gc |-> FinishAttack(g, result), ret |-> TRUE]
                : result \in CombatResults(s.territories[from], s.territories[target])}

\* the territories one breadth-first search reaches from the visited set
RECURSIVE RegionFrom(_, _, _)
RegionFrom(s, player, visited) ==
    LET more == {n \in DOMAIN s.territories :
                    /\ n \notin visited
                    /\ s.territories[n].owner = player
                    /\ \E t \in visited : n \in SeqRange(s.territories[t].neighbors)}
    IN  IF more = {} THEN visited ELSE RegionFrom(s, player, visited \cup more)

FindLargestContiguousRegion(s, player) ==
    LET mine == {t \in DOMAIN s.territories : s.territories[t].owner = player}
        sizes == {Cardinality(RegionFrom(s, player, {start})) : start \in mine}
    IN  IF mine = {} THEN 0 ELSE CHOOSE n \in sizes : \A m \in sizes : m <= n

\* CalculateReinforcements counting every territory the player owns
CalculateReinforcementsCountsAll(s, player) == CountTerritoriesOwned(s, player)

CalculateReinforcements(s, player) == FindLargestContiguousRegion(s, player)

\* one iteration of the reinforcement loop, the random index being idx
\* DistributeStep without the cap
DistributeStepNoCap(x, idx) ==
    [x EXCEPT !.s.territories[x.cand[idx]].diceCount = @ + 1, !.left = @ - 1]

DistributeStep(x, idx) ==
    LET tid == x.cand[idx]
    IN  IF ValidTerritory(x.s, tid) /\ x.s.territories[tid].diceCount < MAX_DICE_PER_TERRITORY
        THEN [x EXCEPT !.s.territories[tid].diceCount = @ + 1,
                       !.left = @ - 1,
                       !.cand = IF x.s.territories[tid].diceCount + 1 >= MAX_DICE_PER_TERRITORY
                                THEN RemoveAt(@, idx) ELSE @]
        ELSE [x EXCEPT !.cand = RemoveAt(@, idx)]

DistributeDone(x) == ~(x.left > 0 /\ x.cand # << >>)

RECURSIVE DistributeRun(_)
DistributeRun(X) ==
    IF \A x \in X : DistributeDone(x) THEN X
    ELSE DistributeRun(UNION {IF DistributeDone(x) THEN {x}
                              ELSE {DistributeStep(x, idx) : idx \in 1 .. Len(x.cand)}
                              : x \in X})

\* the states DistributeReinforcements can leave
DistributeReinforcements(s, player, diceCount) ==
    LET eligible == SetToSeq({t \in DOMAIN s.territories :
                                /\ s.territories[t].owner = player
                                /\ s.territories[t].diceCount < MAX_DICE_PER_TERRITORY})
    IN  IF eligible = << >> THEN {s}
        ELSE {x.s : x \in DistributeRun({[s |-> s, cand |-> eligible, left |-> diceCount]})}

\* the controllers EndTurn can leave
EndTurn(g) ==
    IF g.state.phase = "GameOver" THEN {g}
    ELSE LET g1 == CancelSelection(g)
             reinforcements == CalculateReinforcements(g1.state, g1.state.currentPlayer)
             after == IF reinforcements > 0
                      THEN DistributeReinforcements(g1.state, g1.state.currentPlayer,
                                                    reinforcements)
                      ELSE {g1.state}
         IN  {AdvanceToNextPlayer([g1 EXCEPT !.state = s2]) : s2 \in after}

(***************************************************************************)
(* AIController                                                            *)
(***************************************************************************)
\* EvaluateAttacks without the test that the source can attack
EvaluateAttacksOneDie(s, player) ==
    {<<from, to>> \in (DOMAIN s.territories) \X (0 .. Cardinality(DOMAIN s.territories)) :
        /\ s.territories[from].owner = player
        /\ to \in SeqRange(s.territories[from].neighbors)
        /\ ValidTerritory(s, to)
        /\ s.territories[to].owner # player}

\* the (from, to) pairs EvaluateAttacks builds an evaluation for
EvaluateAttacks(s, player) ==
    {<<from, to>> \in (DOMAIN s.territories) \X (0 .. Cardinality(DOMAIN s.territories)) :
        /\ s.territories[from].owner = player
        /\ TerritoryCanAttack(s.territories[from])
        /\ to \in SeqRange(s.territories[from].neighbors)
        /\ ValidTerritory(s, to)
        /\ s.territories[to].owner # player}

\* the controller on which TakeAction calls Attack: the chosen source is
\* written to selectedTerritory through GetState()
PrepareAttack(g, chosen) == [g EXCEPT !.state.selectedTerritory = chosen[1]]

\* the outcomes of TakeAction: no candidate, or the best one below the
\* thresholds, returns false; otherwise the chosen candidate is attacked
\* after its source is written to selectedTerritory
TakeAction(g, player) ==
    LET attacks == EvaluateAttacks(g.state, player)
    IN  IF attacks = {} THEN {[gc |-> g, ret |-> FALSE]}
        ELSE {[gc |-> g, ret |-> FALSE]}
             \cup UNION {Attack(PrepareAttack(g, chosen), chosen[2]) : chosen \in attacks}

(***************************************************************************)
(* GameController::Update                                                  *)
(***************************************************************************)
UpdateCombatTimer(g, deltaTime) ==
    IF g.state.combatPending
    THEN [g EXCEPT !.state.combatAnimTimer = @ - deltaTime,
                   !.state.combatPending = ~(g.state.combatAnimTimer - deltaTime <= 0)]
    ELSE g

\* whether Update handles an AI turn in g
AIPhase(g) == g.state.phase = "AITurn" /\ g.aiController

\* the controller when Update tests the think timer
UpdateThinkTimer(g, deltaTime) ==
    LET g1 == UpdateCombatTimer(g, deltaTime)
    IN  IF AIPhase(g1) THEN [g1 EXCEPT !.aiThinkTimer = @ - deltaTime] ELSE g1

\* Update ending the turn after an attack as well
UpdateAttackEndsTurn(g, deltaTime) ==
    LET g2 == UpdateThinkTimer(g, deltaTime)
    IN  IF AIPhase(g2)
        THEN IF g2.aiThinkTimer <= 0
             THEN UNION {IF r.ret
                         THEN {[gc |-> e, ai |-> "attack"]
                                 : e \in EndTurn([r.gc EXCEPT !.aiThinkTimer = AI_THINK_DELAY])}
                         ELSE {[gc |-> e, ai |-> "endturn"] : e \in EndTurn(r.gc)}
                            : r \in TakeAction(g2, g2.state.currentPlayer)}
             ELSE {[gc |-> g2, ai |-> "wait"]}
        ELSE {[gc |-> g2, ai |-> "none"]}

\* the outcomes of Update: the controller after the call and what the AI did
Update(g, deltaTime) ==
    LET g2 == UpdateThinkTimer(g, deltaTime)
    IN  IF AIPhase(g2)
        THEN IF g2.aiThinkTimer <= 0
             THEN UNION {IF r.ret
                         THEN {[gc |-> [r.gc EXCEPT !.aiThinkTimer = AI_THINK_DELAY],
                                ai |-> "attack"]}
                         ELSE {[gc |-> e, ai |-> "endturn"] : e \in EndTurn(r.gc)}
                            : r \in TakeAction(g2, g2.state.currentPlayer)}
             ELSE {[gc |-> g2, ai |-> "wait"]}
        ELSE {[gc |-> g2, ai |-> "none"]}

(***************************************************************************)
(* InitializeGame                                                          *)
(***************************************************************************)
InitPlayers(config) ==
    [i \in 0 .. (config.playerCount - 1) |->
        [id |-> i, isHuman |-> (i = config.humanPlayerIndex), isEliminated |-> FALSE]]

\* the controllers InitializeGame(config) can leave
InitializeGame(config, ai) ==
    {StartTurn([state |-> [config |-> config,
                           players |-> InitPlayers(config),
                           activePlayerCount |-> config.playerCount,
                           currentPlayer |-> 0,
                           turnNumber |-> 1,
                           phase |-> "SelectAttacker",
                           territories |-> terr,
                           hexToTerritory |->
                               GeneratedHexToTerritory(config.targetTerritoryCount),
                           selectedTerritory |-> TERRITORY_NONE,
                           validTargets |-> << >>,
                           lastCombat |-> CachedCombat(NoCombat),
                           combatPending |-> FALSE,
                           combatAnimTimer |-> 0,
                           mapNeedsRefresh |-> FALSE,
                           winner |-> PLAYER_NONE],
                aiThinkTimer |-> 0,
                aiController |-> ai], 0)
        : terr \in AssignToPlayers(GeneratedTerritories(config.targetTerritoryCount),
                                   config.playerCount,
                                   config.startingDicePerPlayer)}

\* the GameConfig values the games are initialized with
Configs ==
    {[playerCount |-> 2, humanPlayerIndex |-> 0, startingDicePerPlayer |-> 20,
      targetTerritoryCount |-> 3],
     [playerCount |-> 3, humanPlayerIndex |-> 1, startingDicePerPlayer |-> 2,
      targetTerritoryCount |-> 3]}

(***************************************************************************)
(* The game: the public operations of GameController, called in any order. *)
(***************************************************************************)
NoRolls == [phase |-> "idle"]

Init ==
    /\ \E config \in Configs : gc \in InitializeGame(config, TRUE)
    /\ combat = NoRolls

WithinTurns(g) == g.state.turnNumber <= MaxTurn

SelectTerritoryCall ==
    \E id \in CallerIds(gc.state) :
        LET r == SelectTerritory(gc, id)
        IN  /\ gc' = r.gc
            /\ UNCHANGED combat

AttackCall ==
    \E id \in CallerIds(gc.state) :
        \E r \in Attack(gc, id) :
            /\ gc' = r.gc
            /\ UNCHANGED combat

CancelSelectionCall ==
    /\ gc' = CancelSelection(gc)
    /\ UNCHANGED combat

EndTurnCall ==
    \E g \in EndTurn(gc) :
        /\ WithinTurns(g)
        /\ gc' = g
        /\ UNCHANGED combat

UpdateCall ==
    \E deltaTime \in DeltaTimes :
        \E r \in Update(gc, deltaTime) :
            /\ WithinTurns(r.gc)
            /\ gc' = r.gc
            /\ UNCHANGED combat

Next ==
    \/ SelectTerritoryCall
    \/ AttackCall
    \/ CancelSelectionCall
    \/ EndTurnCall
    \/ UpdateCall

Spec == Init /\ [][Next]_vars

(***************************************************************************)
(* CombatSystem on its own: ResolveCombat applied to drawn roll vectors.   *)
(***************************************************************************)
NoGame == [state |-> "none"]

RollVectors == UNION {RollDice(count) : count \in 1 .. MaxRollDice}

InitCombat ==
    /\ gc = NoGame
    /\ \E attackerRolls \in RollVectors, defenderRolls \in RollVectors :
          combat = [phase |-> "rolled",
                    attacker |-> [id |-> 0, owner |-> 0, diceCount |-> Len(attackerRolls),
                                  neighbors |-> <<1>>],
                    defender |-> [id |-> 1, owner |-> 1, diceCount |-> Len(defenderRolls),
                                  neighbors |-> <<0>>],
                    attackerRolls |-> attackerRolls,
                    defenderRolls |-> defenderRolls]

ResolveCombatCall ==
    /\ combat.phase = "rolled"
    /\ combat' = [phase |-> "resolved",
                  result |-> ResolveCombat(combat.attacker, combat.defender,
                                           combat.attackerRolls, combat.defenderRolls)]
    /\ UNCHANGED gc

NextCombat == ResolveCombatCall

SpecCombat == InitCombat /\ [][NextCombat]_vars

(***************************************************************************)
(* Where the operations are called from a reachable state: by the caller   *)
(* of the public interface, and by Update on behalf of the AI.             *)
(***************************************************************************)
\* the controllers in which Update calls TakeAction
AIActing ==
    {g2 \in {UpdateThinkTimer(gc, deltaTime) : deltaTime \in DeltaTimes} :
        AIPhase(g2) /\ g2.aiThinkTimer <= 0}

\* the calls of Attack: controller and target
AttackCalls ==
    {[g |-> gc, target |-> id] : id \in CallerIds(gc.state)}
    \cup UNION {{[g |-> PrepareAttack(g2, chosen), target |-> chosen[2]]
                    : chosen \in EvaluateAttacks(g2.state, g2.state.currentPlayer)}
                : g2 \in AIActing}

\* the calls of EndTurn: the controller it is called on
EndTurnCalls == {gc} \cup AIActing

Owner(g, t) == g.state.territories[t].owner
Dice(g, t) == g.state.territories[t].diceCount
Territories(g) == DOMAIN g.state.territories
Players(g) == DOMAIN g.state.players

(***************************************************************************)
(* Claims                                                                  *)
(***************************************************************************)
\* C1: ResolveCombat reports attackerWins whenever the attacker's dice total
\* equals the defender's dice total (ties favor the attacker).
TiesFavorAttacker ==
    (combat.phase = "resolved" /\ combat.result.attackerTotal = combat.result.defenderTotal)
        => combat.result.attackerWins

\* C2: after a successful Attack that the attacker wins, the defending
\* territory is owned by the attacking player and holds the attacker's dice
\* before the attack minus one, the attacking territory holds exactly one
\* die, and mapNeedsRefresh is true.
CaptureMovesDice ==
    \A c \in AttackCalls : \A r \in Attack(c.g, c.target) :
        (r.ret /\ r.gc.state.lastCombat.attackerWins) =>
            LET from == c.g.state.selectedTerritory
            IN  /\ Owner(r.gc, c.target) = Owner(c.g, from)
                /\ Owner(r.gc, c.target) = c.g.state.currentPlayer
                /\ Dice(r.gc, c.target) = Dice(c.g, from) - 1
                /\ Dice(r.gc, from) = 1
                /\ r.gc.state.mapNeedsRefresh

\* an Attack has just been won with eight dice: seven moved in, one stayed
CaptureWitness ==
    /\ gc.state.combatPending
    /\ gc.state.combatAnimTimer = COMBAT_ANIM_TIME
    /\ gc.state.lastCombat.attackerWins
    /\ gc.state.mapNeedsRefresh
    /\ \E from, to \in Territories(gc) :
          /\ Dice(gc, from) = 1
          /\ Dice(gc, to) = MAX_DICE_PER_TERRITORY - 1
          /\ Owner(gc, from) = Owner(gc, to)
          /\ to \in SeqRange(gc.state.territories[from].neighbors)

\* C3: after a successful Attack that the defender wins, the attacking
\* territory holds exactly one die, its owner is unchanged, and the defending
\* territory's owner and dice are as before the attack.
DefenseKeepsDice ==
    \A c \in AttackCalls : \A r \in Attack(c.g, c.target) :
        (r.ret /\ ~r.gc.state.lastCombat.attackerWins) =>
            LET from == c.g.state.selectedTerritory
            IN  /\ Dice(r.gc, from) = 1
                /\ Owner(r.gc, from) = Owner(c.g, from)
                /\ Owner(r.gc, c.target) = Owner(c.g, c.target)
                /\ Dice(r.gc, c.target) = Dice(c.g, c.target)

\* an Attack has just been lost: the attacker is down to one die next to an
\* enemy territory that holds more than one
DefenseWitness ==
    /\ gc.state.combatPending
    /\ gc.state.combatAnimTimer = COMBAT_ANIM_TIME
    /\ ~gc.state.lastCombat.attackerWins
    /\ \E from, to \in Territories(gc) :
          /\ Dice(gc, from) = 1
          /\ Owner(gc, from) = gc.state.currentPlayer
          /\ Owner(gc, to) # gc.state.currentPlayer
          /\ Dice(gc, to) > 1
          /\ to \in SeqRange(gc.state.territories[from].neighbors)

\* C4: in every state reachable from InitializeGame through SelectTerritory,
\* Attack, CancelSelection, EndTurn and Update, every territory holds between
\* 1 and 8 dice.
DiceInRange ==
    \A t \in Territories(gc) : 1 <= Dice(gc, t) /\ Dice(gc, t) <= MAX_DICE_PER_TERRITORY

\* an EndTurn whose reinforcement fills a territory to the cap and goes on to
\* give a die to another one
ReinforceToCapWitness ==
    /\ gc.state.phase # "GameOver"
    /\ gc.state.winner = PLAYER_NONE
    /\ \E g \in EndTurn(gc) : \E t, u \in Territories(gc) :
          /\ t # u
          /\ Dice(gc, t) < MAX_DICE_PER_TERRITORY
          /\ Dice(g, t) = MAX_DICE_PER_TERRITORY
          /\ Dice(g, u) > Dice(gc, u)

\* C5: Attack(target) resolves a combat and returns true exactly when the
\* phase is SelectTarget or AITurn, a source territory is selected and
\* CanAttack(selected, target) holds; CanAttack(from, to) holds exactly when
\* both ids exist, from is owned by the current player and has at least two
\* dice, to is not owned by the current player, and to is a neighbor of from.
AttackIffLegal ==
    /\ \A c \in AttackCalls : \A r \in Attack(c.g, c.target) :
          LET s == c.g.state
              from == s.selectedTerritory
              legal == /\ s.phase \in {"SelectTarget", "AITurn"}
                       /\ from # TERRITORY_NONE
                       /\ from \in DOMAIN s.territories
                       /\ c.target \in DOMAIN s.territories
                       /\ s.territories[from].owner = s.currentPlayer
                       /\ s.territories[from].diceCount >= 2
                       /\ s.territories[c.target].owner # s.currentPlayer
                       /\ \E i \in DOMAIN s.territories[from].neighbors :
                             s.territories[from].neighbors[i] = c.target
          IN  /\ r.ret <=> legal
              /\ r.ret => /\ r.gc.state.combatPending
                          /\ r.gc.state.combatAnimTimer = COMBAT_ANIM_TIME
                          /\ Dice(r.gc, from) = 1
              /\ ~r.ret => r.gc.state.territories = s.territories
    /\ \A from, to \in CallerIds(gc.state) :
          CanAttack(gc.state, from, to) <=>
             /\ from \in DOMAIN gc.state.territories
             /\ to \in DOMAIN gc.state.territories
             /\ gc.state.territories[from].owner = gc.state.currentPlayer
             /\ gc.state.territories[from].diceCount >= 2
             /\ gc.state.territories[to].owner # gc.state.currentPlayer
             /\ \E i \in DOMAIN gc.state.territories[from].neighbors :
                   gc.state.territories[from].neighbors[i] = to

\* a selection with at least two dice from which one Attack is accepted and
\* another, on an enemy territory that is not adjacent, is refused
AttackIffLegalWitness ==
    /\ gc.state.phase = "SelectTarget"
    /\ \E a, b \in Territories(gc) :
          /\ \E r \in Attack(gc, a) : r.ret
          /\ Owner(gc, b) # gc.state.currentPlayer
          /\ \A r \in Attack(gc, b) : ~r.ret

\* C6 as claimed: whenever SelectTerritory or Attack returns false, and
\* whenever EndTurn is called in phase GameOver, the GameState after the call
\* is identical to the GameState before it.
RejectedCallChangesNothing ==
    /\ \A id \in CallerIds(gc.state) :
          LET r == SelectTerritory(gc, id) IN ~r.ret => r.gc.state = gc.state
    /\ \A c \in AttackCalls : \A r \in Attack(c.g, c.target) :
          ~r.ret => r.gc.state = c.g.state
    /\ gc.state.phase = "GameOver" => \A g \in EndTurn(gc) : g.state = gc.state

\* C6 as amended: whenever SelectTerritory returns false for a territory other
\* than the selected one, whenever Attack returns false, and whenever EndTurn
\* is called in phase GameOver, the GameState after the call is identical to
\* the GameState before it.
RejectedCallChangesNothingButToggle ==
    /\ \A id \in CallerIds(gc.state) :
          LET r == SelectTerritory(gc, id)
          IN  (~r.ret /\ id # gc.state.selectedTerritory) => r.gc.state = gc.state
    /\ \A c \in AttackCalls : \A r \in Attack(c.g, c.target) :
          ~r.ret => r.gc.state = c.g.state
    /\ gc.state.phase = "GameOver" => \A g \in EndTurn(gc) : g.state = gc.state

\* with a territory selected, selecting an enemy territory and attacking an
\* own territory are both refused
RejectedCallWitness ==
    /\ gc.state.phase = "SelectTarget"
    /\ gc.state.winner = PLAYER_NONE
    /\ \E id \in Territories(gc) :
          /\ Owner(gc, id) # gc.state.currentPlayer
          /\ ~SelectTerritory(gc, id).ret
    /\ \E id \in Territories(gc) :
          /\ Owner(gc, id) = gc.state.currentPlayer
          /\ \A r \in Attack(gc, id) : ~r.ret

\* the players owning no territory, and whether one player owns them all
OwnsNothing(g, p) == \A t \in Territories(g) : Owner(g, t) # p
SingleOwner(g) == \A t, u \in Territories(g) : Owner(g, t) = Owner(g, u)

\* C7: within a successful Attack call every player who then owns no
\* territory is marked eliminated, and winner is set, with phase GameOver,
\* exactly when one player owns every territory, winner being that owner.
AttackEliminatesAndCrowns ==
    \A c \in AttackCalls : \A r \in Attack(c.g, c.target) :
        r.ret =>
            /\ \A p \in Players(r.gc) :
                  OwnsNothing(r.gc, p) => r.gc.state.players[p].isEliminated
            /\ (r.gc.state.winner # PLAYER_NONE /\ r.gc.state.phase = "GameOver")
                  <=> SingleOwner(r.gc)
            /\ r.gc.state.winner # PLAYER_NONE <=> SingleOwner(r.gc)
            /\ SingleOwner(r.gc) =>
                  \A t \in Territories(r.gc) : Owner(r.gc, t) = r.gc.state.winner

\* a two-player game just after the attack that took the loser's last
\* territory: the loser is eliminated and the attacker has won
LastTerritoryWitness ==
    /\ gc.state.config.playerCount = 2
    /\ gc.state.combatPending
    /\ gc.state.combatAnimTimer = COMBAT_ANIM_TIME
    /\ gc.state.lastCombat.attackerWins
    /\ gc.state.phase = "GameOver"
    /\ gc.state.winner = gc.state.currentPlayer
    /\ \E p \in Players(gc) :
          /\ p # gc.state.winner
          /\ gc.state.players[p].isEliminated
          /\ OwnsNothing(gc, p)

\* C8: once the phase is GameOver, no call of SelectTerritory, Attack,
\* CancelSelection, EndTurn or Update changes the phase, the winner, the
\* current player, or any territory's owner or dice.
GameOverIsTerminal ==
    [][gc.state.phase = "GameOver" =>
          /\ gc'.state.phase = "GameOver"
          /\ gc'.state.winner = gc.state.winner
          /\ gc'.state.currentPlayer = gc.state.currentPlayer
          /\ gc'.state.territories = gc.state.territories]_vars

\* the players other than the current one that are not eliminated
OtherPlayers(g) ==
    {p \in Players(g) : p # g.state.currentPlayer /\ ~g.state.players[p].isEliminated}

\* C9: AdvanceToNextPlayer makes a non-eliminated player the current player,
\* unless no other non-eliminated player exists: then the phase becomes
\* GameOver and winner is the remaining player.
AdvanceLandsOnLivePlayer ==
    \A g0 \in EndTurnCalls :
        g0.state.phase # "GameOver" =>
            \A g \in EndTurn(g0) :
                IF OtherPlayers(g0) # {}
                THEN /\ g.state.currentPlayer \in OtherPlayers(g0)
                     /\ ~g.state.players[g.state.currentPlayer].isEliminated
                     /\ g.state.phase # "GameOver"
                ELSE /\ g.state.phase = "GameOver"
                     /\ g.state.winner = g0.state.currentPlayer
                     /\ g.state.currentPlayer = g0.state.currentPlayer
                     /\ ~g.state.players[g0.state.currentPlayer].isEliminated

\* an EndTurn in a running three-player game that passes over the eliminated
\* player next in order
SkipEliminatedWitness ==
    /\ gc.state.phase # "GameOver"
    /\ gc.state.winner = PLAYER_NONE
    /\ gc.state.config.playerCount = 3
    /\ LET p == gc.state.currentPlayer
       IN  /\ gc.state.players[(p + 1) % 3].isEliminated
           /\ \E g \in EndTurn(gc) : g.state.currentPlayer = (p + 2) % 3

\* the first non-eliminated player after p in cyclic index order
CyclicDistance(g, p, q) == (q - p + g.state.config.playerCount) % g.state.config.playerCount
FirstLiveAfter(g, p) ==
    CHOOSE q \in OtherPlayers(g) :
        \A q2 \in OtherPlayers(g) : CyclicDistance(g, p, q) <= CyclicDistance(g, p, q2)

\* C10: EndTurn by player p, the phase not GameOver and another non-eliminated
\* player existing, makes the first non-eliminated player after p in cyclic
\* order the current player, adds exactly 1 to turnNumber when that player's
\* index is below p's and leaves it unchanged otherwise, and makes the phase
\* SelectAttacker if the new player is human and AITurn otherwise.
EndTurnPassesTheTurn ==
    \A g0 \in EndTurnCalls :
        (g0.state.phase # "GameOver" /\ OtherPlayers(g0) # {}) =>
            \A g \in EndTurn(g0) :
                LET p == g0.state.currentPlayer
                    q == FirstLiveAfter(g0, p)
                IN  /\ g.state.currentPlayer = q
                    /\ g.state.turnNumber =
                          IF q < p THEN g0.state.turnNumber + 1 ELSE g0.state.turnNumber
                    /\ g.state.phase =
                          IF g.state.players[q].isHuman THEN "SelectAttacker" ELSE "AITurn"

\* a turn has wrapped around to a lower index, past an eliminated player, in
\* a game still running
WrapAroundWitness ==
    /\ gc.state.turnNumber = 2
    /\ gc.state.winner = PLAYER_NONE
    /\ gc.state.config.playerCount = 3
    /\ gc.state.currentPlayer = 0
    /\ gc.state.players[2].isEliminated
    /\ gc.state.selectedTerritory = TERRITORY_NONE
    /\ gc.state.phase = "AITurn"
    /\ gc.aiThinkTimer = AI_THINK_DELAY

\* the territories of player p, the dice on them and the room left on them
OwnedBy(g, p) == {t \in Territories(g) : Owner(g, t) = p}
DiceOwnedBy(g, p, T) ==
    LET q == SetToSeq(T) IN Sum([i \in 1 .. Len(q) |-> Dice(g, q[i])])
RoomOwnedBy(g, p) ==
    LET q == SetToSeq(OwnedBy(g, p))
    IN  Sum([i \in 1 .. Len(q) |-> MAX_DICE_PER_TERRITORY - Dice(g, q[i])])

\* a set of territories no part of which is cut off from the rest of it
Adjacent(g, t, u) == u \in SeqRange(g.state.territories[t].neighbors)
Contiguous(g, S) ==
    \A A \in SUBSET S :
        (A # {} /\ A # S) => \E t \in A, u \in S \ A : Adjacent(g, t, u)

\* the size of the largest contiguous set of territories of player p
LargestRegion(g, p) ==
    LET sizes == {Cardinality(S) : S \in {S2 \in SUBSET OwnedBy(g, p) : Contiguous(g, S2)}}
    IN  CHOOSE n \in sizes : \A m \in sizes : m <= n

Min(a, b) == IF a <= b THEN a ELSE b

\* C11: EndTurn by player p, the phase not GameOver, raises the sum of dice on
\* p's territories by exactly min(L, C), L the size of p's largest contiguous
\* region and C the sum of (8 - diceCount) over p's territories; the
\* territories of other players are unchanged, no territory loses dice and
\* no territory changes owner.
ReinforcementAmount ==
    \A g0 \in EndTurnCalls :
        g0.state.phase # "GameOver" =>
            \A g \in EndTurn(g0) :
                LET p == g0.state.currentPlayer
                    mine == OwnedBy(g0, p)
                IN  /\ DiceOwnedBy(g, p, mine) =
                          DiceOwnedBy(g0, p, mine)
                              + Min(LargestRegion(g0, p), RoomOwnedBy(g0, p))
                    /\ \A t \in Territories(g0) :
                          /\ Owner(g, t) = Owner(g0, t)
                          /\ Dice(g, t) >= Dice(g0, t)
                          /\ t \notin mine => Dice(g, t) = Dice(g0, t)

\* the current player of a running game holds two territories that do not
\* touch, with room for more than one die, and EndTurn adds exactly one
SplitRegionWitness ==
    /\ gc.state.phase # "GameOver"
    /\ gc.state.winner = PLAYER_NONE
    /\ LET p == gc.state.currentPlayer
       IN  /\ Cardinality(OwnedBy(gc, p)) = 2
           /\ LargestRegion(gc, p) = 1
           /\ RoomOwnedBy(gc, p) > 1
           /\ \E g \in EndTurn(gc) :
                 DiceOwnedBy(g, p, OwnedBy(gc, p)) = DiceOwnedBy(gc, p, OwnedBy(gc, p)) + 1

\* C12: SelectTerritory(id) returns true exactly when the phase is
\* SelectAttacker or SelectTarget, id is not the selected territory, id
\* exists, is owned by the current player and has at least 2 dice; on success
\* selectedTerritory = id, the phase is SelectTarget, and validTargets is
\* exactly the set of neighbors n of id with CanAttack(id, n).
SelectIffOwnAndArmed ==
    \A id \in CallerIds(gc.state) :
        LET r == SelectTerritory(gc, id)
            s == gc.state
        IN  /\ r.ret <=> /\ s.phase \in {"SelectAttacker", "SelectTarget"}
                         /\ id # s.selectedTerritory
                         /\ id \in Territories(gc)
                         /\ Owner(gc, id) = s.currentPlayer
                         /\ Dice(gc, id) >= 2
            /\ r.ret =>
                  /\ r.gc.state.selectedTerritory = id
                  /\ r.gc.state.phase = "SelectTarget"
                  /\ SeqRange(r.gc.state.validTargets) =
                        {n \in Territories(gc) :
                            /\ Adjacent(gc, id, n)
                            /\ Owner(gc, n) # s.currentPlayer}
                  /\ \A n \in SeqRange(r.gc.state.validTargets) : CanAttack(s, id, n)
                  /\ \A i, j \in 1 .. Len(r.gc.state.validTargets) :
                        i # j => r.gc.state.validTargets[i] # r.gc.state.validTargets[j]

\* a territory between a friendly and an enemy neighbor is selected: only the
\* enemy one is a valid target
SelectedBetweenWitness ==
    /\ gc.state.phase = "SelectTarget"
    /\ gc.state.winner = PLAYER_NONE
    /\ gc.state.selectedTerritory \in Territories(gc)
    /\ Len(gc.state.validTargets) = 1
    /\ \E n \in Territories(gc) :
          /\ Adjacent(gc, gc.state.selectedTerritory, n)
          /\ Owner(gc, n) = gc.state.currentPlayer
          /\ n \notin SeqRange(gc.state.validTargets)

\* the controller after SelectTerritory(t) and then SelectTerritory(t) again
SelectTwice(g, t) == SelectTerritory(SelectTerritory(g, t).gc, t)

\* C13 as claimed: a successful SelectTerritory(t) followed at once by
\* SelectTerritory(t) leaves selectedTerritory none, validTargets empty and
\* the phase SelectAttacker, which is the state before the first call.
ToggleRestoresState ==
    \A t \in CallerIds(gc.state) :
        SelectTerritory(gc, t).ret =>
            /\ SelectTwice(gc, t).gc.state.selectedTerritory = TERRITORY_NONE
            /\ SelectTwice(gc, t).gc.state.validTargets = << >>
            /\ SelectTwice(gc, t).gc.state.phase = "SelectAttacker"
            /\ SelectTwice(gc, t).gc.state = gc.state

\* C13 as amended: a successful SelectTerritory(t) followed at once by
\* SelectTerritory(t) leaves selectedTerritory none, validTargets empty and
\* the phase SelectAttacker, every other field as before the first call; this
\* is the state before the first call when that call was made in phase
\* SelectAttacker with no territory selected.
ToggleClearsSelection ==
    \A t \in CallerIds(gc.state) :
        SelectTerritory(gc, t).ret =>
            /\ ~SelectTwice(gc, t).ret
            /\ SelectTwice(gc, t).gc.state =
                  [gc.state EXCEPT !.selectedTerritory = TERRITORY_NONE,
                                   !.validTargets = << >>,
                                   !.phase = "SelectAttacker"]
            /\ (gc.state.phase = "SelectAttacker"
                    /\ gc.state.selectedTerritory = TERRITORY_NONE) =>
                  SelectTwice(gc, t).gc.state = gc.state
            /\ SelectTwice(gc, t).gc.aiThinkTimer = gc.aiThinkTimer

\* nothing is selected in a running game, a territory can be selected, and
\* selecting it twice gives back the state
ToggleWitness ==
    /\ gc.state.phase = "SelectAttacker"
    /\ gc.state.winner = PLAYER_NONE
    /\ gc.state.selectedTerritory = TERRITORY_NONE
    /\ \E t \in Territories(gc) :
          /\ SelectTerritory(gc, t).ret
          /\ SelectTerritory(gc, t).gc.state.selectedTerritory = t
          /\ SelectTwice(gc, t).gc.state = gc.state

(***************************************************************************)
(* Replay: two games built from the same non-zero seed and given the same  *)
(* calls.  The generators seeded from config.seed (TerritoryGenerator,     *)
(* CombatSystem, AIController) draw the same values in both games;         *)
(* DistributeReinforcements draws from a generator seeded by               *)
(* std::random_device, so each game draws its own.  The two games are      *)
(* compared up to their first difference.                                  *)
(***************************************************************************)
InitReplay ==
    /\ \E config \in Configs : \E g \in InitializeGame(config, TRUE) :
          gc = [first |-> g, second |-> g]
    /\ combat = NoRolls

ReplayInStep == gc.first = gc.second

ReplaySelectTerritory ==
    /\ ReplayInStep
    /\ \E id \in CallerIds(gc.first.state) :
          gc' = [first |-> SelectTerritory(gc.first, id).gc,
                 second |-> SelectTerritory(gc.second, id).gc]
    /\ UNCHANGED combat

ReplayAttack ==
    /\ ReplayInStep
    /\ \E target \in CallerIds(gc.first.state) : \E r \in Attack(gc.first, target) :
          gc' = [first |-> r.gc, second |-> r.gc]
    /\ UNCHANGED combat

ReplayCancelSelection ==
    /\ ReplayInStep
    /\ gc' = [first |-> CancelSelection(gc.first), second |-> CancelSelection(gc.second)]
    /\ UNCHANGED combat

ReplayEndTurn ==
    /\ ReplayInStep
    /\ \E g1 \in EndTurn(gc.first), g2 \in EndTurn(gc.second) :
          /\ WithinTurns(g1)
          /\ WithinTurns(g2)
          /\ gc' = [first |-> g1, second |-> g2]
    /\ UNCHANGED combat

ReplayUpdate ==
    /\ ReplayInStep
    /\ \E deltaTime \in DeltaTimes :
          \E r1 \in Update(gc.first, deltaTime), r2 \in Update(gc.second, deltaTime) :
              /\ r1.ai = r2.ai
              /\ r1.ai # "endturn" => r1 = r2
              /\ WithinTurns(r1.gc)
              /\ WithinTurns(r2.gc)
              /\ gc' = [first |-> r1.gc, second |-> r2.gc]
    /\ UNCHANGED combat

NextReplay ==
    \/ ReplaySelectTerritory
    \/ ReplayAttack
    \/ ReplayCancelSelection
    \/ ReplayEndTurn
    \/ ReplayUpdate

SpecReplay == InitReplay /\ [][NextReplay]_vars

\* C14: two games initialized with the same non-zero seed and driven by the
\* same sequence of operations pass through identical GameStates, the dice
\* counts after every EndTurn reinforcement included.
ReplayIdentical == gc.first.state = gc.second.state

\* C15: AIController writes no GameState field itself: the controller on
\* which TakeAction calls Attack is the one GameController::SelectTerritory
\* leaves when given the chosen source, so selectedTerritory is only ever
\* changed by a public method that validated it.
AISelectsThroughController ==
    \A g2 \in AIActing :
        \A chosen \in EvaluateAttacks(g2.state, g2.state.currentPlayer) :
            PrepareAttack(g2, chosen) = SelectTerritory(g2, chosen[1]).gc

Eliminated(g, p) == g.state.players[p].isEliminated

\* C16: for every player, isEliminated goes from false to true at most once
\* and never back; it becomes true exactly in the Attack call after which the
\* player owns no territory; a player who owns a territory is never marked
\* eliminated.
EliminatedOnce ==
    /\ [](\A p \in Players(gc) : Eliminated(gc, p) => OwnsNothing(gc, p))
    /\ [](\A c \in AttackCalls : \A r \in Attack(c.g, c.target) : \A p \in Players(gc) :
            Eliminated(r.gc, p) <=>
                (Eliminated(c.g, p) \/ (r.ret /\ OwnsNothing(r.gc, p))))
    /\ [][\A p \in Players(gc) :
            /\ Eliminated(gc, p) => Eliminated(gc', p)
            /\ (~Eliminated(gc, p) /\ Eliminated(gc', p)) =>
                  /\ ~OwnsNothing(gc, p)
                  /\ OwnsNothing(gc', p)
                  /\ gc'.state.combatPending
                  /\ gc'.state.combatAnimTimer = COMBAT_ANIM_TIME
                  /\ gc'.state.lastCombat.attackerWins]_vars

\* a three-player game still running just after the attack that took a
\* player's last territory
EliminatedWitness ==
    /\ gc.state.config.playerCount = 3
    /\ gc.state.winner = PLAYER_NONE
    /\ gc.state.combatPending
    /\ gc.state.combatAnimTimer = COMBAT_ANIM_TIME
    /\ gc.state.lastCombat.attackerWins
    /\ \E p, q \in Players(gc) :
          /\ p # q
          /\ Eliminated(gc, p)
          /\ OwnsNothing(gc, p)
          /\ ~Eliminated(gc, q)
          /\ q # gc.state.currentPlayer

(***************************************************************************)
(* HexCoord, HexGrid and TerritoryGenerator::Generate on the hex level.    *)
(* A hex is <<q, r>>.  The priority queue is kept as the set of its        *)
(* entries <<distance, hex, territoryId>>.  centerHex is display data and  *)
(* is left out.                                                            *)
(***************************************************************************)
HEX_DIRECTIONS == << <<1, 0>>, <<1, -1>>, <<0, -1>>, <<-1, 0>>, <<-1, 1>>, <<0, 1>> >>

HexNeighbor(coord, direction) ==
    <<coord[1] + HEX_DIRECTIONS[(direction % 6) + 1][1],
      coord[2] + HEX_DIRECTIONS[(direction % 6) + 1][2]>>

Abs(n) == IF n < 0 THEN -n ELSE n
Max(a, b) == IF a >= b THEN a ELSE b

HexDistance(a, b) ==
    (Abs(a[1] - b[1]) + Abs((-a[1] - a[2]) - (-b[1] - b[2])) + Abs(a[2] - b[2])) \div 2

HexLess(a, b) == IF a[1] # b[1] THEN a[1] < b[1] ELSE a[2] < b[2]

\* the coordinates of the hexagon of the given radius
GenerateHexagonalGrid(radius) ==
    {<<q, r>> : q \in -radius .. radius, r \in -radius .. radius} \cap
    {c \in (-radius .. radius) \X (-radius .. radius) :
        /\ c[2] >= Max(-radius, -c[1] - radius)
        /\ c[2] <= Min(radius, -c[1] + radius)}

\* the valid neighbors of a hex, in direction order
GridNeighbors(grid, coord) ==
    LET all == [d \in 1 .. 6 |-> HexNeighbor(coord, d - 1)]
    IN  SelectSeq(all, LAMBDA n : n \in grid)

\* max(1, int(sqrt(hexCount / targetCount) * 0.8))
MinSeedDistance(hexCount, targetCount) ==
    Max(1, CHOOSE m \in 0 .. hexCount :
                /\ 25 * m * m * targetCount <= 16 * hexCount
                /\ 25 * (m + 1) * (m + 1) * targetCount > 16 * hexCount)

\* the greedy pass over the shuffled candidates from index i on
RECURSIVE GreedySeeds(_, _, _, _, _)
GreedySeeds(candidates, i, seeds, targetCount, minDistance) ==
    IF i > Len(candidates) \/ Len(seeds) >= targetCount THEN seeds
    ELSE LET coord == candidates[i]
             tooClose == \E k \in 1 .. Len(seeds) :
                            HexDistance(coord, seeds[k]) < minDistance
         IN  GreedySeeds(candidates, i + 1,
                         IF tooClose THEN seeds ELSE Append(seeds, coord),
                         targetCount, minDistance)

\* the evenly spaced pass from (0-based) index i on
RECURSIVE StridedSeeds(_, _, _, _, _)
StridedSeeds(candidates, i, seeds, targetCount, step) ==
    IF ~(i < Len(candidates) /\ Len(seeds) < targetCount) THEN seeds
    ELSE StridedSeeds(candidates, i + step, Append(seeds, candidates[i + 1]),
                      targetCount, step)

\* SelectSeedPoints on the candidates as shuffled
SelectSeedPoints(candidates, targetCount) ==
    IF candidates = << >> \/ targetCount <= 0 THEN << >>
    ELSE LET seeds == GreedySeeds(candidates, 1, << >>, targetCount,
                                  MinSeedDistance(Len(candidates), targetCount))
         IN  IF Len(seeds) < targetCount \div 2
             THEN StridedSeeds(candidates, 0, << >>, targetCount,
                               Max(1, Len(candidates) \div targetCount))
             ELSE seeds

\* the order of the queue's entries
EntryLess(a, b) ==
    IF a[1] # b[1] THEN a[1] < b[1]
    ELSE IF a[2] # b[2] THEN HexLess(a[2], b[2])
    ELSE a[3] < b[3]

QueueTop(pq) == CHOOSE e \in pq : \A f \in pq : f = e \/ EntryLess(e, f)

JITTER_MAX == 2

\* FloodFillTerritories before its loop: one empty territory per seed, the
\* seeds queued at distance 0
FloodFillStart(grid, seeds) ==
    [stage |-> "fill",
     grid |-> grid,
     pq |-> {<<0, seeds[i], i - 1>> : i \in 1 .. Len(seeds)},
     assigned |-> {},
     state |-> [territories |->
                    [t \in 0 .. (Len(seeds) - 1) |->
                        [id |-> t, owner |-> PLAYER_NONE, diceCount |-> 1,
                         hexes |-> << >>, neighbors |-> << >>]],
                hexToTerritory |-> << >>]]

\* FloodFillStep assigning the popped hex whether or not it is assigned
FloodFillStepNoSkip(x, jitter) ==
    LET top == QueueTop(x.pq)
        assigned == x.assigned \cup {top[2]}
        open == IF top[2] \in x.assigned THEN {}
                ELSE {n \in SeqRange(GridNeighbors(x.grid, top[2])) : n \notin assigned}
    IN  [x EXCEPT !.pq = (x.pq \ {top})
                            \cup {<<top[1] + 1 + jitter[n], n, top[3]>> : n \in open},
                  !.assigned = assigned,
                  !.state.territories[top[3]].hexes = Append(@, top[2]),
                  !.state.hexToTerritory = (top[2] :> top[3]) @@ @]

\* one iteration of the flood fill loop, the jitter drawn per neighbor
FloodFillStep(x, jitter) ==
    LET top == QueueTop(x.pq)
        dist == top[1]
        coord == top[2]
        territoryId == top[3]
        rest == x.pq \ {top}
    IN  IF coord \in x.assigned THEN [x EXCEPT !.pq = rest]
        ELSE LET assigned == x.assigned \cup {coord}
                 open == {n \in SeqRange(GridNeighbors(x.grid, coord)) : n \notin assigned}
             IN  [x EXCEPT !.pq = rest \cup {<<dist + 1 + jitter[n], n, territoryId>> : n \in open},
                           !.assigned = assigned,
                           !.state.territories[territoryId].hexes = Append(@, coord),
                           !.state.hexToTerritory = (coord :> territoryId) @@ @]

\* the neighbors whose jitter the step draws
JitterDraws(x) ==
    LET top == QueueTop(x.pq)
    IN  IF top[2] \in x.assigned THEN {}
        ELSE {n \in SeqRange(GridNeighbors(x.grid, top[2])) : n \notin x.assigned \cup {top[2]}}

GetTerritoryAt(s, coord) ==
    IF coord \in DOMAIN s.hexToTerritory THEN s.hexToTerritory[coord] ELSE TERRITORY_NONE

\* NeighborSet without the test against the territory's own id
NeighborSetWithSelf(grid, s, t) ==
    {GetTerritoryAt(s, n) :
        n \in UNION {SeqRange(GridNeighbors(grid, s.territories[t].hexes[i]))
                        : i \in 1 .. Len(s.territories[t].hexes)}}
    \ {TERRITORY_NONE}

\* the neighbor set CalculateTerritoryNeighbors collects for a territory
NeighborSet(grid, s, t) ==
    {GetTerritoryAt(s, n) :
        n \in UNION {SeqRange(GridNeighbors(grid, s.territories[t].hexes[i]))
                        : i \in 1 .. Len(s.territories[t].hexes)}}
    \ {TERRITORY_NONE, s.territories[t].id}

\* the states CalculateTerritoryNeighbors can leave: each neighbor list holds
\* its set in the order the unordered_set yields
CalculateTerritoryNeighbors(grid, s) ==
    {[s EXCEPT !.territories = [t \in DOMAIN s.territories |->
                                   [s.territories[t] EXCEPT !.neighbors = order[t]]]]
        : order \in {f \in [DOMAIN s.territories -> UNION {Orderings(NeighborSet(grid, s, t))
                                                              : t \in DOMAIN s.territories}] :
                        \A t \in DOMAIN s.territories :
                            f[t] \in Orderings(NeighborSet(grid, s, t))}}

\* the grids, target counts and shuffle outcomes generation is run on
GridConfigs ==
    {[radius |-> 1, targetTerritoryCount |-> 1,
      shuffled |-> << <<0, 0>>, <<1, 0>>, <<0, 1>>, <<-1, 1>>, <<-1, 0>>, <<0, -1>>, <<1, -1>> >>],
     [radius |-> 1, targetTerritoryCount |-> 2,
      shuffled |-> << <<-1, 0>>, <<-1, 1>>, <<0, -1>>, <<0, 0>>, <<0, 1>>, <<1, -1>>, <<1, 0>> >>],
     [radius |-> 1, targetTerritoryCount |-> 3,
      shuffled |-> << <<1, 0>>, <<-1, 0>>, <<0, 0>>, <<0, 1>>, <<-1, 1>>, <<0, -1>>, <<1, -1>> >>]}

InitGen ==
    /\ \E config \in GridConfigs :
          LET grid == GenerateHexagonalGrid(config.radius)
          IN  /\ SeqRange(config.shuffled) = grid
              /\ Len(config.shuffled) = Cardinality(grid)
              /\ gc = FloodFillStart(grid, SelectSeedPoints(config.shuffled,
                                                            config.targetTerritoryCount))
    /\ combat = NoRolls

FloodFill ==
    /\ gc.stage = "fill"
    /\ gc.pq # {}
    /\ \E jitter \in [JitterDraws(gc) -> 0 .. JITTER_MAX] :
          gc' = FloodFillStep(gc, jitter)
    /\ UNCHANGED combat

FinishGenerate ==
    /\ gc.stage = "fill"
    /\ gc.pq = {}
    /\ \E s \in CalculateTerritoryNeighbors(gc.grid, gc.state) :
          gc' = [gc EXCEPT !.stage = "generated", !.state = s]
    /\ UNCHANGED combat

NextGen == FloodFill \/ FinishGenerate

SpecGen == InitGen /\ [][NextGen]_vars

\* the hexes of a generated territory, as listed and as a set
HexList(t) == gc.state.territories[t].hexes
HexSet(t) == SeqRange(HexList(t))
GeneratedIds == DOMAIN gc.state.territories

\* C17: after Generate on a grid with at least one seed, every grid hex is a
\* key of hexToTerritory mapping to one territory id, every hex is in exactly
\* one territory's hex list exactly once, hexToTerritory[h] = t iff h is in
\* territories[t].hexes, and the union of the hex lists is the grid.
GeneratePartitionsGrid ==
    gc.stage = "generated" =>
        /\ DOMAIN gc.state.hexToTerritory = gc.grid
        /\ \A h \in gc.grid :
              /\ gc.state.hexToTerritory[h] \in GeneratedIds
              /\ Cardinality({<<t, i>> \in GeneratedIds \X (1 .. Cardinality(gc.grid)) :
                                 i <= Len(HexList(t)) /\ HexList(t)[i] = h}) = 1
              /\ \A t \in GeneratedIds : gc.state.hexToTerritory[h] = t <=> h \in HexSet(t)
        /\ UNION {HexSet(t) : t \in GeneratedIds} = gc.grid

\* generation has ended with three territories of at least two hexes each
ThreeTerritoriesWitness ==
    /\ gc.stage = "generated"
    /\ Cardinality(GeneratedIds) = 3
    /\ \A t \in GeneratedIds : Len(HexList(t)) >= 2

\* C18: after Generate the neighbor relation is symmetric and irreflexive, no
\* id is listed twice, and B is in A.neighbors exactly when some hex of A is
\* grid-adjacent to some hex of B.
NeighborsSymmetric ==
    gc.stage = "generated" =>
        \A a \in GeneratedIds :
            LET list == gc.state.territories[a].neighbors
            IN  /\ a \notin SeqRange(list)
                /\ \A i, j \in 1 .. Len(list) : i # j => list[i] # list[j]
                /\ \A b \in GeneratedIds :
                      /\ b \in SeqRange(list) <=> a \in SeqRange(gc.state.territories[b].neighbors)
                      /\ a # b =>
                            (b \in SeqRange(list) <=>
                                \E h \in HexSet(a), k \in HexSet(b) : HexDistance(h, k) = 1)

\* generation has ended with two territories that do not touch and a third
\* that touches both
ApartWitness ==
    /\ gc.stage = "generated"
    /\ \E a, b, c \in GeneratedIds :
          /\ a # b
          /\ b \notin SeqRange(gc.state.territories[a].neighbors)
          /\ SeqRange(gc.state.territories[c].neighbors) = {a, b}

(***************************************************************************)
(* IslandDetector.  It is run on territory tables as generation leaves     *)
(* them on a grid with gaps: dense ids, symmetric neighbor lists, disjoint *)
(* hex lists indexed by hexToTerritory.  before is the table the last call *)
(* was given, removed the ids it returned.                                 *)
(***************************************************************************)
MaxIslandTerritories == 4

EmptyIsland == [territories |-> << >>, totalHexCount |-> 0]

\* the depth-first visit: acc holds the visited set and the island so far
RECURSIVE DFSTerritory(_, _, _)
RECURSIVE DFSNeighbors(_, _, _, _)
DFSTerritory(current, s, acc) ==
    LET a1 == [visited |-> acc.visited \cup {current},
               island |-> [acc.island EXCEPT !.territories = Append(@, current)]]
    IN  IF ValidTerritory(s, current)
        THEN DFSNeighbors(s.territories[current].neighbors, 1, s,
                          [a1 EXCEPT !.island.totalHexCount =
                                        @ + Len(s.territories[current].hexes)])
        ELSE a1

DFSNeighbors(list, i, s, acc) ==
    IF i > Len(list) THEN acc
    ELSE DFSNeighbors(list, i + 1, s,
                      IF list[i] \notin acc.visited THEN DFSTerritory(list[i], s, acc)
                      ELSE acc)

RECURSIVE FindIslandsFrom(_, _, _, _)
FindIslandsFrom(s, i, visited, islands) ==
    IF i >= Cardinality(DOMAIN s.territories) THEN islands
    ELSE IF s.territories[i].id \in visited
    THEN FindIslandsFrom(s, i + 1, visited, islands)
    ELSE LET r == DFSTerritory(s.territories[i].id, s,
                               [visited |-> visited, island |-> EmptyIsland])
         IN  FindIslandsFrom(s, i + 1, r.visited, Append(islands, r.island))

FindIslands(s) == FindIslandsFrom(s, 0, {}, << >>)

\* LargestIslandFrom moving on to a later island of the same size
RECURSIVE LargestIslandFromLastOnTie(_, _, _)
LargestIslandFromLastOnTie(islands, i, largestIdx) ==
    IF i > Len(islands) THEN largestIdx
    ELSE LargestIslandFromLastOnTie(islands, i + 1,
                           IF islands[i].totalHexCount >= islands[largestIdx].totalHexCount
                           THEN i ELSE largestIdx)

\* the index of the island with the most hexes, the first one on a tie
RECURSIVE LargestIslandFrom(_, _, _)
LargestIslandFrom(islands, i, largestIdx) ==
    IF i > Len(islands) THEN largestIdx
    ELSE LargestIslandFrom(islands, i + 1,
                           IF islands[i].totalHexCount > islands[largestIdx].totalHexCount
                           THEN i ELSE largestIdx)

\* the ids of the islands other than the kept one, island by island
RECURSIVE RemovedFrom(_, _, _)
RemovedFrom(islands, i, largestIdx) ==
    IF i > Len(islands) THEN << >>
    ELSE (IF i = largestIdx THEN << >> ELSE islands[i].territories)
         \o RemovedFrom(islands, i + 1, largestIdx)

\* a neighbor list with the old ids left in place
RemapNeighborsKeepsOld(neighbors, idRemap) ==
    SelectSeq(neighbors, LAMBDA n : n \in DOMAIN idRemap)

\* a neighbor list carried over to the new ids, removed neighbors dropped
RemapNeighbors(neighbors, idRemap) ==
    LET kept == SelectSeq(neighbors, LAMBDA n : n \in DOMAIN idRemap)
    IN  [i \in 1 .. Len(kept) |-> idRemap[kept[i]]]

\* the reverse index with the erased hexes left in
RemapHexesKeepsErased(hexToTerritory, erased, idRemap) ==
    [h \in DOMAIN hexToTerritory |->
        IF hexToTerritory[h] \in DOMAIN idRemap THEN idRemap[hexToTerritory[h]]
        ELSE hexToTerritory[h]]

\* the reverse index without the erased hexes, carried over to the new ids
RemapHexes(hexToTerritory, erased, idRemap) ==
    [h \in DOMAIN hexToTerritory \ erased |->
        IF hexToTerritory[h] \in DOMAIN idRemap THEN idRemap[hexToTerritory[h]]
        ELSE hexToTerritory[h]]

\* the state KeepLargestIslandOnly leaves and the ids it returns
KeepLargestIslandOnly(s) ==
    LET islands == FindIslands(s)
    IN  IF Len(islands) <= 1 THEN [state |-> s, removed |-> << >>]
        ELSE
        LET largestIdx == LargestIslandFrom(islands, 2, 1)
            keepSet == SeqRange(islands[largestIdx].territories)
            removed == RemovedFrom(islands, 1, largestIdx)
            erased == UNION {SeqRange(s.territories[tid].hexes)
                                : tid \in {r \in SeqRange(removed) : ValidTerritory(s, r)}}
            keptIdx == SetToSeq({i \in DOMAIN s.territories : s.territories[i].id \in keepSet})
            idRemap == [old \in {s.territories[keptIdx[n]].id : n \in 1 .. Len(keptIdx)} |->
                          (CHOOSE n \in 1 .. Len(keptIdx) : s.territories[keptIdx[n]].id = old) - 1]
        IN  [state |->
                [s EXCEPT
                    !.territories =
                        [n \in 0 .. (Len(keptIdx) - 1) |->
                            [s.territories[keptIdx[n + 1]] EXCEPT
                                !.id = n,
                                !.neighbors = RemapNeighbors(@, idRemap)]],
                    !.hexToTerritory = RemapHexes(@, erased, idRemap)],
             removed |-> removed]

\* a territory table of count territories: the neighbor lists of the given
\* borders (pairs of ids), size[t] hexes in territory t, owners and dice
\* that tell the territories apart
IslandTable(count, borders, size) ==
    [territories |->
        [t \in 0 .. (count - 1) |->
            [id |-> t, owner |-> t % 2, diceCount |-> t + 1,
             hexes |-> [i \in 1 .. size[t] |-> <<t, i - 1>>],
             neighbors |-> SetToSeq({u \in 0 .. (count - 1) :
                                        {t, u} \in borders /\ t # u})]],
     hexToTerritory |->
        [h \in UNION {{<<t, i - 1>> : i \in 1 .. size[t]} : t \in 0 .. (count - 1)} |-> h[1]]]

InitIslands ==
    /\ \E count \in 1 .. MaxIslandTerritories :
          \E borders \in SUBSET {{t, u} : t, u \in 0 .. (count - 1)} :
              \E size \in [0 .. (count - 1) -> 1 .. 2] :
                  /\ \A b \in borders : Cardinality(b) = 2
                  /\ gc = [calls |-> 0, removed |-> << >>,
                           before |-> IslandTable(count, borders, size),
                           state |-> IslandTable(count, borders, size)]
    /\ combat = NoRolls

KeepLargestIslandOnlyCall ==
    /\ gc.calls < 2
    /\ LET r == KeepLargestIslandOnly(gc.state)
       IN  gc' = [calls |-> gc.calls + 1, removed |-> r.removed, before |-> gc.state,
                  state |-> r.state]
    /\ UNCHANGED combat

NextIslands == KeepLargestIslandOnlyCall

SpecIslands == InitIslands /\ [][NextIslands]_vars

\* a territory table all in one piece
OneIsland(s) ==
    \A A \in SUBSET DOMAIN s.territories :
        (A # {} /\ A # DOMAIN s.territories) =>
            \E t \in A, u \in DOMAIN s.territories \ A :
                u \in SeqRange(s.territories[t].neighbors)

\* C19: KeepLargestIslandOnly is idempotent: after one call exactly one
\* island remains, a second call removes nothing and leaves the state as it
\* is, and after any call the territory ids are 0..N-1 with
\* territories[i].id = i and every neighbor id in [0, N).
PruningIdempotent ==
    LET once == KeepLargestIslandOnly(gc.state)
        twice == KeepLargestIslandOnly(once.state)
        N == Cardinality(DOMAIN once.state.territories)
    IN  /\ OneIsland(once.state)
        /\ Len(FindIslands(once.state)) = 1
        /\ twice.removed = << >>
        /\ twice.state = once.state
        /\ DOMAIN once.state.territories = 0 .. (N - 1)
        /\ \A i \in 0 .. (N - 1) :
              /\ once.state.territories[i].id = i
              /\ \A n \in SeqRange(once.state.territories[i].neighbors) : n \in 0 .. (N - 1)

\* one call has removed territory 0 and kept two or more territories, whose
\* ids have moved down
PrunedWitness ==
    /\ gc.calls = 1
    /\ 0 \in SeqRange(gc.removed)
    /\ Cardinality(DOMAIN gc.state.territories) >= 2
    /\ OneIsland(gc.state)

(***************************************************************************)
(* CombatQueue.  The action passed by the n-th QueueAction call is n.      *)
(* queued, popped and cleared record the calls made, the actions returned  *)
(* and the actions Clear dropped.                                          *)
(***************************************************************************)
MaxQueued == 4

NoAction == 0

ProcessingDelays == {0, 2}

NewQueue ==
    [pendingActions |-> << >>, processingDelay |-> 0, timer |-> 0, actionReady |-> FALSE]

QueueAction(q, action) ==
    LET q1 == [q EXCEPT !.pendingActions = Append(@, action)]
    IN  IF Len(q1.pendingActions) = 1
        THEN [q1 EXCEPT !.timer = q.processingDelay,
                        !.actionReady = (q.processingDelay <= 0)]
        ELSE q1

QueueUpdate(q, deltaTime) ==
    IF q.pendingActions = << >> THEN [q EXCEPT !.actionReady = FALSE]
    ELSE [q EXCEPT !.timer = @ - deltaTime,
                   !.actionReady = IF q.timer - deltaTime <= 0 THEN TRUE ELSE @]

\* PopNextAction taking the newest action
PopNextActionTakesLast(q) ==
    IF ~q.actionReady \/ q.pendingActions = << >> THEN [q |-> q, ret |-> NoAction]
    ELSE LET rest == SubSeq(q.pendingActions, 1, Len(q.pendingActions) - 1)
         IN  [q |-> [q EXCEPT !.pendingActions = rest,
                              !.timer = IF rest # << >> THEN q.processingDelay ELSE @,
                              !.actionReady = rest # << >> /\ q.processingDelay <= 0],
              ret |-> q.pendingActions[Len(q.pendingActions)]]

\* PopNextAction leaving the ready flag set for the action behind
PopNextActionKeepsReady(q) ==
    IF ~q.actionReady \/ q.pendingActions = << >> THEN [q |-> q, ret |-> NoAction]
    ELSE LET rest == Tail(q.pendingActions)
         IN  [q |-> [q EXCEPT !.pendingActions = rest,
                              !.timer = IF rest # << >> THEN q.processingDelay ELSE @,
                              !.actionReady = rest # << >>],
              ret |-> Head(q.pendingActions)]

\* the queue after PopNextAction and the action returned, NoAction for nullopt
PopNextAction(q) ==
    IF ~q.actionReady \/ q.pendingActions = << >> THEN [q |-> q, ret |-> NoAction]
    ELSE LET rest == Tail(q.pendingActions)
         IN  [q |-> [q EXCEPT !.pendingActions = rest,
                              !.timer = IF rest # << >> THEN q.processingDelay ELSE @,
                              !.actionReady = rest # << >> /\ q.processingDelay <= 0],
              ret |-> Head(q.pendingActions)]

SetProcessingDelay(q, delay) == [q EXCEPT !.processingDelay = delay]

ClearQueue(q) == [q EXCEPT !.pendingActions = << >>, !.timer = 0, !.actionReady = FALSE]

InitQueue ==
    /\ gc = [q |-> NewQueue, queued |-> 0, popped |-> << >>, cleared |-> {}]
    /\ combat = NoRolls

QueueActionCall ==
    /\ gc.queued < MaxQueued
    /\ gc' = [gc EXCEPT !.q = QueueAction(gc.q, gc.queued + 1), !.queued = @ + 1]
    /\ UNCHANGED combat

QueueUpdateCall ==
    /\ gc.q.timer >= 0
    /\ \E deltaTime \in DeltaTimes : gc' = [gc EXCEPT !.q = QueueUpdate(gc.q, deltaTime)]
    /\ UNCHANGED combat

PopNextActionCall ==
    /\ LET r == PopNextAction(gc.q)
       IN  gc' = [gc EXCEPT !.q = r.q,
                            !.popped = IF r.ret = NoAction THEN @ ELSE Append(@, r.ret)]
    /\ UNCHANGED combat

SetProcessingDelayCall ==
    /\ \E delay \in ProcessingDelays : gc' = [gc EXCEPT !.q = SetProcessingDelay(gc.q, delay)]
    /\ UNCHANGED combat

ClearCall ==
    /\ gc' = [gc EXCEPT !.q = ClearQueue(gc.q),
                        !.cleared = @ \cup SeqRange(gc.q.pendingActions)]
    /\ UNCHANGED combat

NextQueue ==
    \/ QueueActionCall
    \/ QueueUpdateCall
    \/ PopNextActionCall
    \/ SetProcessingDelayCall
    \/ ClearCall

SpecQueue == InitQueue /\ [][NextQueue]_vars

\* C20: PopNextAction returns an action only when the queue is non-empty and
\* the ready flag is set, and otherwise returns nothing and changes nothing;
\* the actions it returns come out in the order they were passed to
\* QueueAction, each exactly once.
PopIsGatedFifo ==
    LET r == PopNextAction(gc.q)
    IN  /\ r.ret # NoAction <=> (gc.q.actionReady /\ gc.q.pendingActions # << >>)
        /\ r.ret = NoAction => r.q = gc.q
        /\ r.ret # NoAction =>
              /\ r.ret = Head(gc.q.pendingActions)
              /\ r.q.pendingActions = Tail(gc.q.pendingActions)
              /\ \A i \in 1 .. Len(gc.popped) : gc.popped[i] < r.ret
        /\ gc.popped \o gc.q.pendingActions = SetToSeq((1 .. gc.queued) \ gc.cleared)

\* two actions have come out, a third waits and is not ready yet
GatedWitness ==
    /\ gc.popped = <<1, 2>>
    /\ gc.q.pendingActions = <<3>>
    /\ ~gc.q.actionReady
    /\ gc.q.timer > 0
    /\ gc.cleared = {}
    /\ PopNextAction(gc.q).ret = NoAction

(***************************************************************************)
(* CombatQueue with a fixed processing delay: the delay is set once, then  *)
(* QueueAction, Update and PopNextAction are called in any order.          *)
(* sincePop and sinceQueue add up the deltaTime passed to Update since the *)
(* last successful pop and since the last QueueAction on an empty queue;   *)
(* pops counts the successful pops, awaitingFirst tells that none has      *)
(* happened since the last QueueAction on an empty queue.                  *)
(***************************************************************************)
\* Update is explored while the added-up time stays within this bound
MaxElapsed == 5

FixedDelays == {0, 2, 3}

SpacingDeltaTimes == {1, 2}

InitSpacing ==
    /\ \E delay \in FixedDelays :
          gc = [q |-> SetProcessingDelay(NewQueue, delay), queued |-> 0, pops |-> 0,
                sincePop |-> 0, sinceQueue |-> 0, awaitingFirst |-> FALSE]
    /\ combat = NoRolls

SpacingQueueAction ==
    /\ gc.queued < MaxQueued
    /\ gc' = [gc EXCEPT !.q = QueueAction(gc.q, gc.queued + 1),
                        !.queued = @ + 1,
                        !.sinceQueue = IF gc.q.pendingActions = << >> THEN 0 ELSE @,
                        !.awaitingFirst = IF gc.q.pendingActions = << >> THEN TRUE ELSE @]
    /\ UNCHANGED combat

SpacingUpdate ==
    /\ \E deltaTime \in SpacingDeltaTimes :
          /\ gc.sincePop + deltaTime <= MaxElapsed
          /\ gc' = [gc EXCEPT !.q = QueueUpdate(gc.q, deltaTime),
                              !.sincePop = @ + deltaTime,
                              !.sinceQueue = @ + deltaTime]
    /\ UNCHANGED combat

SpacingPopNextAction ==
    /\ LET r == PopNextAction(gc.q)
       IN  gc' = IF r.ret = NoAction THEN [gc EXCEPT !.q = r.q]
                 ELSE [gc EXCEPT !.q = r.q, !.pops = @ + 1, !.sincePop = 0,
                                 !.awaitingFirst = FALSE]
    /\ UNCHANGED combat

NextSpacing ==
    \/ SpacingQueueAction
    \/ SpacingUpdate
    \/ SpacingPopNextAction

SpecSpacing == InitSpacing /\ [][NextSpacing]_vars

\* C21: with a fixed processing delay D > 0, whenever PopNextAction returns
\* an action, the deltaTime passed to Update since the previous successful
\* pop, and since the QueueAction on an empty queue when this is the first
\* pop after it, adds up to at least D; with D = 0 an action queued into an
\* empty queue is returned by a PopNextAction that follows with no Update
\* between.
PopsAreSpaced ==
    /\ (gc.q.processingDelay > 0 /\ PopNextAction(gc.q).ret # NoAction) =>
          /\ gc.pops > 0 => gc.sincePop >= gc.q.processingDelay
          /\ gc.awaitingFirst => gc.sinceQueue >= gc.q.processingDelay
    /\ (gc.q.processingDelay = 0 /\ gc.q.pendingActions = << >>) =>
          PopNextAction(QueueAction(gc.q, gc.queued + 1)).ret = gc.queued + 1

\* with delay 3, one action has come out and the next can be popped exactly
\* when the updates since then add up to 3, a third action waiting behind
SpacedWitness ==
    /\ gc.q.processingDelay = 3
    /\ gc.pops = 1
    /\ gc.sincePop = 3
    /\ Len(gc.q.pendingActions) = 2
    /\ PopNextAction(gc.q).ret = 2

(***************************************************************************)
(* Islands described without the search: the connected components of the   *)
(* neighbor relation.                                                      *)
(***************************************************************************)
Borders(s, t, u) == u \in SeqRange(s.territories[t].neighbors)

ConnectedIn(s, A) ==
    \A B \in SUBSET A : (B # {} /\ B # A) => \E t \in B, u \in A \ B : Borders(s, t, u)

\* the component of territory t
IslandOf(s, t) ==
    CHOOSE A \in SUBSET DOMAIN s.territories :
        /\ t \in A
        /\ ConnectedIn(s, A)
        /\ \A v \in A, u \in DOMAIN s.territories \ A : ~Borders(s, v, u)

IslandSets(s) == {IslandOf(s, t) : t \in DOMAIN s.territories}

HexTotal(s, A) ==
    LET q == SetToSeq(A) IN Sum([i \in 1 .. Len(q) |-> Len(s.territories[q[i]].hexes)])

LowestId(A) == CHOOSE t \in A : \A u \in A : t <= u

\* the component with the most hexes, the one of the lowest id on a tie
LargestOf(s, islands) ==
    CHOOSE K \in islands :
        \A C \in islands :
            \/ C = K
            \/ HexTotal(s, K) > HexTotal(s, C)
            \/ HexTotal(s, K) = HexTotal(s, C) /\ LowestId(K) < LowestId(C)

LargestIsland(s) == LargestOf(s, IslandSets(s))

\* C22: when there is more than one island KeepLargestIslandOnly keeps the
\* island with the greatest total hex count, the one whose first territory
\* has the lowest index on a tie, and returns exactly the ids, as they were
\* before the call, of the territories of every other island, each once;
\* with one island or none it returns an empty list and leaves the state
\* unchanged.
KeepsLargestIsland ==
    LET s == gc.state
        r == KeepLargestIslandOnly(s)
        islands == IslandSets(s)
        largest == LargestOf(s, islands)
        kept == SetToSeq(largest)
        none == IslandTable(0, {}, << >>)
    IN  /\ IF Cardinality(islands) > 1
           THEN /\ SeqRange(r.removed) = DOMAIN s.territories \ largest
                /\ Len(r.removed) = Cardinality(DOMAIN s.territories \ largest)
                /\ DOMAIN r.state.territories = 0 .. (Len(kept) - 1)
                /\ \A n \in 1 .. Len(kept) :
                      r.state.territories[n - 1].hexes = s.territories[kept[n]].hexes
           ELSE /\ r.removed = << >>
                /\ r.state = s
        /\ KeepLargestIslandOnly(none) = [state |-> none, removed |-> << >>]

\* two islands tie on hexes, one territory of two hexes against two
\* territories of one hex each, and the call keeps the one that starts first
TieWitness ==
    /\ gc.calls = 1
    /\ Cardinality(IslandSets(gc.before)) = 2
    /\ \E A, B \in IslandSets(gc.before) :
          /\ LowestId(A) < LowestId(B)
          /\ Cardinality(A) = 1
          /\ Cardinality(B) = 2
          /\ HexTotal(gc.before, A) = HexTotal(gc.before, B)
          /\ SeqRange(gc.removed) = B
          /\ Cardinality(DOMAIN gc.state.territories) = 1

\* the id a territory of the kept set has after the call: its rank in the set
NewId(kept, old) == Cardinality({k \in kept : k < old})

\* C23: after KeepLargestIslandOnly the kept territories are in their old
\* order with their hex lists, owner and dice; new A lists new B as neighbor
\* iff old A listed old B, no id twice; hexToTerritory holds exactly the
\* hexes of the kept territories, each mapped to its territory's new id; no
\* neighbor entry and no hexToTerritory entry refers to a removed territory.
CrossReferencesConsistent ==
    LET s == gc.state
        r == KeepLargestIslandOnly(s).state
        kept == LargestIsland(s)
        N == Cardinality(kept)
    IN  /\ DOMAIN r.territories = 0 .. (N - 1)
        /\ \A a \in kept :
              LET old == s.territories[a]
                  new == r.territories[NewId(kept, a)]
              IN  /\ new.id = NewId(kept, a)
                  /\ new.hexes = old.hexes
                  /\ new.owner = old.owner
                  /\ new.diceCount = old.diceCount
                  /\ \A b \in kept :
                        /\ NewId(kept, b) \in SeqRange(new.neighbors) <=> b \in SeqRange(old.neighbors)
                        /\ a < b => NewId(kept, a) < NewId(kept, b)
                  /\ SeqRange(new.neighbors) \subseteq 0 .. (N - 1)
                  /\ \A i, j \in 1 .. Len(new.neighbors) :
                        i # j => new.neighbors[i] # new.neighbors[j]
        /\ DOMAIN r.hexToTerritory = UNION {SeqRange(s.territories[a].hexes) : a \in kept}
        /\ \A a \in kept : \A h \in SeqRange(s.territories[a].hexes) :
              r.hexToTerritory[h] = NewId(kept, a)
        /\ \A h \in DOMAIN r.hexToTerritory : r.hexToTerritory[h] \in 0 .. (N - 1)

\* the call has removed territory 1 of four: old 0, 2 and 3 are now 0, 1 and
\* 2, the border of old 2 and 3 is the border of new 1 and 2, and the hexes
\* of old 3 are indexed under 2
RenumberedWitness ==
    /\ gc.calls = 1
    /\ gc.removed = <<1>>
    /\ DOMAIN gc.state.territories = 0 .. 2
    /\ gc.state.territories[2].hexes = gc.before.territories[3].hexes
    /\ gc.state.territories[2].diceCount = gc.before.territories[3].diceCount
    /\ 3 \in SeqRange(gc.before.territories[2].neighbors)
    /\ 2 \in SeqRange(gc.state.territories[1].neighbors)
    /\ \A h \in SeqRange(gc.before.territories[3].hexes) : gc.state.hexToTerritory[h] = 2
    /\ \A h \in SeqRange(gc.before.territories[1].hexes) : h \notin DOMAIN gc.state.hexToTerritory

\* the controllers one Attack of the current player can leave from g, the
\* source written to selectedTerritory beforehand
OneAttack(g) ==
    UNION {{r.gc : r \in {x \in Attack(PrepareAttack(g, <<from, to>>), to) : x.ret}}
            : from \in Territories(g), to \in Territories(g)}

\* C24: in phase AITurn one Update(dt) call performs at most one AI action:
\* while the think timer has not expired it changes the timers only; on
\* expiry either one attack is made, the think timer is back at the full
\* delay and the current player is the same, in phase AITurn unless the game
\* has ended, or no attack is made and EndTurn has run within the call.
UpdateTakesOneAction ==
    \A deltaTime \in DeltaTimes :
        AIPhase(gc) =>
            LET g2 == UpdateThinkTimer(gc, deltaTime)
            IN  \A r \in Update(gc, deltaTime) :
                    IF gc.aiThinkTimer - deltaTime > 0
                    THEN /\ r.ai = "wait"
                         /\ r.gc = g2
                         /\ r.gc.state.territories = gc.state.territories
                         /\ r.gc.state.phase = "AITurn"
                         /\ r.gc.state.currentPlayer = gc.state.currentPlayer
                    ELSE /\ r.ai \in {"attack", "endturn"}
                         /\ r.ai = "attack" =>
                               /\ [r.gc EXCEPT !.aiThinkTimer = g2.aiThinkTimer] \in OneAttack(g2)
                               /\ r.gc.aiThinkTimer = AI_THINK_DELAY
                               /\ r.gc.state.currentPlayer = gc.state.currentPlayer
                               /\ r.gc.state.combatPending
                               /\ r.gc.state.combatAnimTimer = COMBAT_ANIM_TIME
                               /\ IF IsGameOver(r.gc.state)
                                  THEN r.gc.state.phase = "GameOver"
                                  ELSE r.gc.state.phase = "AITurn"
                         /\ r.ai = "endturn" =>
                               /\ r.gc \in EndTurn(g2)
                               /\ \A t \in Territories(gc) : Owner(r.gc, t) = Owner(gc, t)
                               /\ r.gc.state.lastCombat = gc.state.lastCombat
                               /\ r.gc.state.currentPlayer # gc.state.currentPlayer
                                     \/ r.gc.state.phase = "GameOver"
                               /\ r.gc.state.phase = "AITurn" =>
                                     r.gc.aiThinkTimer = AI_THINK_DELAY

\* the AI has just attacked and the game goes on: it is still the same AI
\* player's turn with the full delay ahead, the next Update only waits, and
\* the one after it acts again
ThinkAgainWitness ==
    /\ gc.state.phase = "AITurn"
    /\ gc.aiController
    /\ gc.state.winner = PLAYER_NONE
    /\ gc.state.combatPending
    /\ gc.state.combatAnimTimer = COMBAT_ANIM_TIME
    /\ gc.aiThinkTimer = AI_THINK_DELAY
    /\ ~gc.state.players[gc.state.currentPlayer].isHuman
    /\ \A r \in Update(gc, 1) : r.ai = "wait"
    /\ \E r \in Update(gc, 1) : \E r2 \in Update(r.gc, 1) : r2.ai = "attack"

(***************************************************************************)
(* TerritoryGenerator::AssignToPlayers step by step, on the map Generate   *)
(* leaves (every territory unowned, with one die).  The state holds the    *)
(* territory table terr, the player p whose dice are being distributed,    *)
(* the candidates cand and the dice left to distribute.                    *)
(***************************************************************************)
\* the largest number of territories assigned
MaxAssignTerritories == 4

AssignPlayerCounts == 1 .. 3

AssignStartingDice == {2, 5, 20}

InitAssign ==
    /\ \E count \in 1 .. MaxAssignTerritories, playerCount \in AssignPlayerCounts,
          startingDice \in AssignStartingDice :
          \E order \in Orderings(0 .. (count - 1)) :
              gc = [stage |-> "player",
                    config |-> [playerCount |-> playerCount,
                                startingDicePerPlayer |-> startingDice],
                    terr |-> AssignOwners(GeneratedTerritories(count), order, playerCount),
                    p |-> 0, cand |-> << >>, left |-> 0]
    /\ combat = NoRolls

\* the head of the loop over the players: the player's territories are
\* collected, a player without territories is passed over
AssignNextPlayer ==
    /\ gc.stage = "player"
    /\ gc.p < gc.config.playerCount
    /\ LET mine == PlayerTerritories(gc.terr, gc.p)
       IN  gc' = IF mine = << >> THEN [gc EXCEPT !.p = @ + 1]
                 ELSE [gc EXCEPT !.stage = "dice", !.cand = mine,
                                 !.left = gc.config.startingDicePerPlayer - Len(mine)]
    /\ UNCHANGED combat

\* one iteration of the while loop
AssignDice ==
    /\ gc.stage = "dice"
    /\ ~AssignDiceDone(gc)
    /\ \E idx \in 1 .. Len(gc.cand) : gc' = AssignDiceStep(gc, idx)
    /\ UNCHANGED combat

\* the while loop is left
AssignDiceEnd ==
    /\ gc.stage = "dice"
    /\ AssignDiceDone(gc)
    /\ gc' = [gc EXCEPT !.stage = "player", !.p = @ + 1]
    /\ UNCHANGED combat

AssignReturn ==
    /\ gc.stage = "player"
    /\ gc.p >= gc.config.playerCount
    /\ gc' = [gc EXCEPT !.stage = "done"]
    /\ UNCHANGED combat

NextAssign ==
    \/ AssignNextPlayer
    \/ AssignDice
    \/ AssignDiceEnd
    \/ AssignReturn

SpecAssign == InitAssign /\ [][NextAssign]_vars

\* the call runs on: a step is taken whenever one can be
SpecAssignFair == SpecAssign /\ WF_vars(NextAssign)

\* the territories of player p in the table being assigned, and their dice
AssignedTo(p) == {t \in DOMAIN gc.terr : gc.terr[t].owner = p}
AssignedDice(p) ==
    LET q == SetToSeq(AssignedTo(p)) IN Sum([i \in 1 .. Len(q) |-> gc.terr[q[i]].diceCount])

\* C25: after AssignToPlayers with T territories and P players every
\* territory is owned by a player in 0..P-1, the numbers of territories of
\* any two players differ by at most 1, and each player who owns k >= 1
\* territories holds max(k, min(startingDicePerPlayer, 8*k)) dice in all, no
\* territory more than 8; the distribution loop always terminates.
AssignIsEven ==
    /\ [](gc.stage = "done" =>
            /\ \A t \in DOMAIN gc.terr :
                  /\ gc.terr[t].owner \in 0 .. (gc.config.playerCount - 1)
                  /\ gc.terr[t].diceCount \in 1 .. MAX_DICE_PER_TERRITORY
            /\ \A p, q \in 0 .. (gc.config.playerCount - 1) :
                  Cardinality(AssignedTo(p)) - Cardinality(AssignedTo(q)) <= 1
            /\ \A p \in 0 .. (gc.config.playerCount - 1) :
                  LET k == Cardinality(AssignedTo(p))
                  IN  k >= 1 =>
                        AssignedDice(p) =
                            Max(k, Min(gc.config.startingDicePerPlayer,
                                       MAX_DICE_PER_TERRITORY * k)))
    /\ [](gc.stage = "dice" => <>(gc.stage = "player"))
    /\ <>(gc.stage = "done")

\* the call has returned: one player's two territories are both at the cap,
\* short of the 20 starting dice, another player's single territory holds 8
CappedStartWitness ==
    /\ gc.stage = "done"
    /\ gc.config.startingDicePerPlayer = 20
    /\ \E p, q \in 0 .. (gc.config.playerCount - 1) :
          /\ Cardinality(AssignedTo(p)) = 2
          /\ AssignedDice(p) = 2 * MAX_DICE_PER_TERRITORY
          /\ Cardinality(AssignedTo(q)) = 1
          /\ AssignedDice(q) = MAX_DICE_PER_TERRITORY

(***************************************************************************)
(* AIController region analysis: FindContiguousRegions and                 *)
(* WouldConnectRegions, applied to drawn maps in one piece with drawn      *)
(* owners.  A region is its set of territories and its cached dice total;  *)
(* the regions of a player are kept as a set.                              *)
(***************************************************************************)
\* the largest number of territories on a drawn map
MaxRegionTerritories == 4

RegionPlayers == 0 .. 1

\* the dice total of a set of territories
RECURSIVE TotalDice(_, _)
TotalDice(s, A) ==
    IF A = {} THEN 0
    ELSE LET t == CHOOSE x \in A : TRUE
         IN  s.territories[t].diceCount + TotalDice(s, A \ {t})

FindContiguousRegions(s, player) ==
    {[territories |-> RegionFrom(s, player, {start}),
      totalDice |-> TotalDice(s, RegionFrom(s, player, {start}))]
        : start \in {t \in DOMAIN s.territories : s.territories[t].owner = player}}

RegionSize(region) == Cardinality(region.territories)

\* the sum of the sizes of a set of regions
RECURSIVE SizeSum(_)
SizeSum(regions) ==
    IF regions = {} THEN 0
    ELSE LET r == CHOOSE x \in regions : TRUE
         IN  RegionSize(r) + SizeSum(regions \ {r})

\* the regions the target touches through a neighbor owned by the player
TouchedRegions(s, target, player, regions) ==
    {region \in regions :
        \E n \in SeqRange(s.territories[target].neighbors) :
            /\ ValidTerritory(s, n)
            /\ s.territories[n].owner = player
            /\ n \in region.territories}

\* WouldConnectRegions reporting a connection for a single touched region
WouldConnectRegionsTouchingOne(s, target, player, regions) ==
    LET touched == TouchedRegions(s, target, player, regions)
        sizes == {RegionSize(r) : r \in touched}
    IN  IF touched # {}
        THEN [ret |-> TRUE,
              incomeGain |-> (1 + SizeSum(touched))
                                - (CHOOSE n \in sizes : \A m \in sizes : m <= n)]
        ELSE [ret |-> FALSE, incomeGain |-> 0]

\* the value returned and the income gain left in the caller's variable,
\* which the caller sets to 0 before the call
WouldConnectRegions(s, target, player, regions) ==
    IF ~ValidTerritory(s, target) THEN [ret |-> FALSE, incomeGain |-> 0]
    ELSE LET touched == TouchedRegions(s, target, player, regions)
             totalSize == 1 + SizeSum(touched)
             sizes == {RegionSize(r) : r \in touched} \cup {0}
             largestTouched == CHOOSE n \in sizes : \A m \in sizes : m <= n
         IN  IF Cardinality(touched) > 1
             THEN [ret |-> TRUE, incomeGain |-> totalSize - largestTouched]
             ELSE [ret |-> FALSE, incomeGain |-> 0]

\* a map of count territories with the given borders and owners
RegionTable(count, borders, owner) ==
    [territories |->
        [t \in 0 .. (count - 1) |->
            [id |-> t, owner |-> owner[t], diceCount |-> 1 + (t % MAX_DICE_PER_TERRITORY),
             neighbors |-> SetToSeq({u \in 0 .. (count - 1) : {t, u} \in borders /\ t # u})]]]

\* the maps in one piece of count territories, with every choice of owners
RegionMaps(count) ==
    {m \in {RegionTable(count, borders, owner) :
                borders \in SUBSET {b \in {{t, u} : t, u \in 0 .. (count - 1)} :
                                        Cardinality(b) = 2},
                owner \in [0 .. (count - 1) -> RegionPlayers]} :
        OneIsland(m)}

InitRegions ==
    /\ \E count \in 2 .. MaxRegionTerritories :
          \E m \in RegionMaps(count) :
              gc = [stage |-> "map", state |-> m,
                    target |-> TERRITORY_NONE, player |-> PLAYER_NONE,
                    result |-> [ret |-> FALSE, incomeGain |-> 0]]
    /\ combat = NoRolls

WouldConnectRegionsCall ==
    /\ gc.stage = "map"
    /\ \E target \in DOMAIN gc.state.territories, player \in RegionPlayers :
          gc' = [gc EXCEPT !.stage = "called", !.target = target, !.player = player,
                           !.result = WouldConnectRegions(gc.state, target, player,
                                          FindContiguousRegions(gc.state, player))]
    /\ UNCHANGED combat

NextRegions == WouldConnectRegionsCall

SpecRegions == InitRegions /\ [][NextRegions]_vars

\* the regions of a player described without the search: the largest sets
\* of the player's territories that hold together
FriendlyRegions(s, player) ==
    LET mine == {t \in DOMAIN s.territories : s.territories[t].owner = player}
    IN  {A \in SUBSET mine :
            /\ A # {}
            /\ ConnectedIn(s, A)
            /\ \A v \in A, u \in mine \ A : ~Borders(s, v, u)}

\* those of them the target borders
TouchedBy(s, target, player) ==
    {A \in FriendlyRegions(s, player) : \E n \in A : Borders(s, target, n)}

RECURSIVE CardinalitySum(_)
CardinalitySum(sets) ==
    IF sets = {} THEN 0
    ELSE LET A == CHOOSE x \in sets : TRUE
         IN  Cardinality(A) + CardinalitySum(sets \ {A})

LargestCardinality(sets) ==
    CHOOSE n \in {Cardinality(A) : A \in sets} : \A B \in sets : Cardinality(B) <= n

\* C26 as claimed: for a target that touches at least 2 distinct friendly
\* contiguous regions WouldConnectRegions reports true and an income gain
\* equal to the sum of the touched regions' sizes minus the size of the
\* largest touched region; for a target touching fewer than 2 it reports
\* false and income gain 0.
GainIsSumMinusLargest ==
    gc.stage = "called" =>
        LET touched == TouchedBy(gc.state, gc.target, gc.player)
        IN  IF Cardinality(touched) >= 2
            THEN /\ gc.result.ret
                 /\ gc.result.incomeGain = CardinalitySum(touched) - LargestCardinality(touched)
            ELSE /\ ~gc.result.ret
                 /\ gc.result.incomeGain = 0

\* C26 as amended: for a target that touches at least 2 distinct friendly
\* contiguous regions WouldConnectRegions reports true and an income gain
\* equal to 1, for the target itself, plus the sum of the touched regions'
\* sizes minus the size of the largest touched region; for a target touching
\* fewer than 2 it reports false and income gain 0.
GainCountsTheTarget ==
    gc.stage = "called" =>
        LET touched == TouchedBy(gc.state, gc.target, gc.player)
        IN  IF Cardinality(touched) >= 2
            THEN /\ gc.result.ret
                 /\ gc.result.incomeGain =
                       1 + CardinalitySum(touched) - LargestCardinality(touched)
            ELSE /\ ~gc.result.ret
                 /\ gc.result.incomeGain = 0

\* an enemy territory between a friendly region of two territories and one
\* of a single territory: the call reports a connection and a gain of 2
ConnectWitness ==
    /\ gc.stage = "called"
    /\ gc.state.territories[gc.target].owner # gc.player
    /\ {Cardinality(A) : A \in TouchedBy(gc.state, gc.target, gc.player)} = {1, 2}
    /\ Cardinality(TouchedBy(gc.state, gc.target, gc.player)) = 2
    /\ gc.result = [ret |-> TRUE, incomeGain |-> 2]

\* C27: for the current player the (from, to) candidates of EvaluateAttacks
\* are exactly the pairs with CanAttack(from, to), so every attack the AI
\* chooses is accepted by Attack and no legal attack is missing from the
\* candidates.
CandidatesAreLegalAttacks ==
    /\ EvaluateAttacks(gc.state, gc.state.currentPlayer) =
          {pair \in CallerIds(gc.state) \X CallerIds(gc.state) :
              CanAttack(gc.state, pair[1], pair[2])}
    /\ \A g2 \in AIActing :
          /\ EvaluateAttacks(g2.state, g2.state.currentPlayer) =
                {pair \in CallerIds(g2.state) \X CallerIds(g2.state) :
                    CanAttack(g2.state, pair[1], pair[2])}
          /\ \A chosen \in EvaluateAttacks(g2.state, g2.state.currentPlayer) :
                \A r \in Attack(PrepareAttack(g2, chosen), chosen[2]) : r.ret

\* the AI is about to act with two adjacent territories, one of one die and
\* one that can attack the enemy next to it: that attack is its only
\* candidate
SoleCandidateWitness ==
    /\ gc.state.winner = PLAYER_NONE
    /\ \E g2 \in AIActing :
          LET p == g2.state.currentPlayer
          IN  /\ Cardinality(OwnedBy(g2, p)) = 2
              /\ \E t \in OwnedBy(g2, p) : Dice(g2, t) = 1
              /\ Cardinality(EvaluateAttacks(g2.state, p)) = 1
              /\ \E r \in TakeAction(g2, p) : r.ret

\* C28: in every state reachable through the public GameController
\* operations, phase SelectTarget implies that selectedTerritory is an
\* existing territory of the current player with at least 2 dice and that
\* validTargets is GetValidTargets(selectedTerritory); phase SelectAttacker
\* implies that nothing is selected and validTargets is empty; and the phase
\* is SelectAttacker or SelectTarget only while the current player is human.
SelectionPhasesConsistent ==
    LET s == gc.state
    IN  /\ s.phase = "SelectTarget" =>
              /\ ValidTerritory(s, s.selectedTerritory)
              /\ s.territories[s.selectedTerritory].owner = s.currentPlayer
              /\ s.territories[s.selectedTerritory].diceCount >= 2
              /\ s.validTargets = GetValidTargets(s, s.selectedTerritory)
        /\ s.phase = "SelectAttacker" =>
              /\ s.selectedTerritory = TERRITORY_NONE
              /\ s.validTargets = << >>
        /\ s.phase \in {"SelectAttacker", "SelectTarget"} =>
              s.players[s.currentPlayer].isHuman

(***************************************************************************)
(* One turn: the first turn of a game, of a human or of an AI player, up   *)
(* to the EndTurn that Update runs for the AI.  Update is called again and *)
(* again; the interface selects and attacks; nobody calls EndTurn or       *)
(* CancelSelection from outside.                                           *)
(***************************************************************************)
TurnConfigs ==
    {[playerCount |-> 2, humanPlayerIndex |-> 1, startingDicePerPlayer |-> 5,
      targetTerritoryCount |-> 4],
     [playerCount |-> 2, humanPlayerIndex |-> 0, startingDicePerPlayer |-> 5,
      targetTerritoryCount |-> 3],
     [playerCount |-> 3, humanPlayerIndex |-> 1, startingDicePerPlayer |-> 2,
      targetTerritoryCount |-> 3]}

InitTurn ==
    /\ \E config \in TurnConfigs : gc \in InitializeGame(config, TRUE)
    /\ combat = NoRolls

\* the turn InitializeGame started is still on
TurnRunning == gc.state.currentPlayer = 0 /\ gc.state.phase # "GameOver"

TurnSelectTerritory == TurnRunning /\ SelectTerritoryCall

TurnAttack == TurnRunning /\ AttackCall

TurnUpdate ==
    /\ TurnRunning
    /\ \E deltaTime \in DeltaTimes : \E r \in Update(gc, deltaTime) : gc' = r.gc
    /\ UNCHANGED combat

NextTurn ==
    \/ TurnSelectTerritory
    \/ TurnAttack
    \/ TurnUpdate

SpecTurn == InitTurn /\ [][NextTurn]_vars

\* Update is called repeatedly
SpecTurnFair == SpecTurn /\ WF_vars(TurnUpdate)

\* the dice of player p beyond one per territory
SpareDice(g, p) ==
    LET q == SetToSeq(OwnedBy(g, p)) IN Sum([i \in 1 .. Len(q) |-> Dice(g, q[i]) - 1])

\* C29: every successful Attack strictly decreases the sum of (diceCount - 1)
\* over the current player's territories, a sum that is never negative, so a
\* player can make only finitely many attacks in one turn; and in phase
\* AITurn with an AI controller attached and Update called repeatedly, the
\* AI player's turn eventually ends: EndTurn runs or the game reaches
\* GameOver.
AttacksUseUpDice ==
    /\ [](\A c \in AttackCalls : \A r \in Attack(c.g, c.target) :
            r.ret =>
                /\ SpareDice(r.gc, c.g.state.currentPlayer)
                      < SpareDice(c.g, c.g.state.currentPlayer)
                /\ SpareDice(r.gc, c.g.state.currentPlayer) >= 0)
    /\ []((AIPhase(gc) /\ TurnRunning) => <>(~TurnRunning))

\* the AI has attacked its way down to one die on each of its three
\* territories: no attack is left to it and the next action ends its turn
SpentWitness ==
    /\ gc.state.phase = "AITurn"
    /\ gc.aiController
    /\ TurnRunning
    /\ gc.state.combatPending
    /\ Cardinality(OwnedBy(gc, 0)) = 3
    /\ SpareDice(gc, 0) = 0
    /\ EvaluateAttacks(gc.state, 0) = {}
    /\ \E t \in OwnedBy(gc, 0), u \in Territories(gc) : Adjacent(gc, t, u) /\ Owner(gc, u) # 0

\* C30: a successful Attack changes the owner and diceCount of at most the
\* attacking and the defending territory: every other territory's owner and
\* dice, every territory's id, hex list and neighbor list, hexToTerritory,
\* currentPlayer and turnNumber are unchanged, and the owner of a territory
\* changes only to the current player.
AttackTouchesTwoTerritories ==
    \A c \in AttackCalls : \A r \in Attack(c.g, c.target) :
        r.ret =>
            LET before == c.g.state
                after == r.gc.state
            IN  /\ DOMAIN after.territories = DOMAIN before.territories
                /\ \A t \in DOMAIN before.territories :
                      /\ t \notin {before.selectedTerritory, c.target} =>
                            /\ after.territories[t].owner = before.territories[t].owner
                            /\ after.territories[t].diceCount = before.territories[t].diceCount
                      /\ after.territories[t].id = before.territories[t].id
                      /\ after.territories[t].hexes = before.territories[t].hexes
                      /\ after.territories[t].neighbors = before.territories[t].neighbors
                      /\ after.territories[t].owner # before.territories[t].owner =>
                            after.territories[t].owner = before.currentPlayer
                /\ after.hexToTerritory = before.hexToTerritory
                /\ after.currentPlayer = before.currentPlayer
                /\ after.turnNumber = before.turnNumber

\* an attack has just taken a territory in a game that goes on: a third
\* territory, of another player and with its dice, stands next to the
\* captured one, and every hex is still indexed under its territory
BystanderWitness ==
    /\ gc.state.winner = PLAYER_NONE
    /\ gc.state.combatPending
    /\ gc.state.combatAnimTimer = COMBAT_ANIM_TIME
    /\ gc.state.lastCombat.attackerWins
    /\ gc.state.mapNeedsRefresh
    /\ \E from, to, other \in Territories(gc) :
          /\ Dice(gc, from) = 1
          /\ Owner(gc, from) = gc.state.currentPlayer
          /\ Owner(gc, to) = gc.state.currentPlayer
          /\ Adjacent(gc, from, to)
          /\ Adjacent(gc, to, other)
          /\ Owner(gc, other) # gc.state.currentPlayer
          /\ Dice(gc, other) >= 2
    /\ \A t \in Territories(gc) :
          \A h \in SeqRange(gc.state.territories[t].hexes) : gc.state.hexToTerritory[h] = t

====
